---- MODULE Spec2Model ----
(***************************************************************************)
(* The grid window manager of the renderer (class WindowManager in         *)
(* src/src/renderer/landing-page.js): an 8x8 grid of windows that are      *)
(* created, dragged, resized, minimized, restored and closed, with overlap *)
(* resolution by push, shrink and force-fit.                               *)
(***************************************************************************)
EXTENDS Integers, Sequences, FiniteSets, TLC

\* ------------------------------------------------------------------ bounds
\* createWindow hands out at most this many ids (the overview window included).
MaxWindows == 4
\* Pointer-move grid deltas are drawn from -MaxDelta .. MaxDelta.
MaxDelta == 3
\* Number of events (handler invocations) in a run.
MaxEvents == 4

\* Characters in the input buffer beyond what it shares with "/rename".
MaxTyped == 5

\* --------------------------------------------------------------- constants
gridSize == 8
minWindowSize == 2
\* a loop bound that allows one pass more
maxIterations_oneMore == 50 + 1
maxIterations == 50
\* z-index that bringToFront assumes for an element without one
baseZIndex == 10

VARIABLES
    windows,          \* this.windows: id -> window record (Map, insertion order = id order)
    windowIdCounter,  \* this.windowIdCounter
    activeWindowId,   \* this.activeWindowId (0 = null)
    dragState,        \* this.dragState (NoGesture = null)
    resizeState,      \* this.resizeState (NoGesture = null)
    overviewWindowId, \* App.overviewWindowId (0 = null)
    terminalToWindow, \* App.terminalToWindow: terminal id -> window id
    terminals,        \* sidebar.terminals and terminalManager.terminals, in insertion order
    closing,          \* calls of App.closeTerminal waiting on terminalAPI.close
    idCounter,        \* PtyManager.idCounter of the main process
    inputBuffer,      \* the inputBuffer of a terminal's onData handler (character codes)
    renameHandled,    \* the renameHandled flag of that handler
    renameCall,       \* history: the last call of getRenameAction, arguments and result
    last,             \* history: the handler that ran last, its argument, the registry and
                      \* the active window id before it, the notifications it delivered
    nEvents           \* history: number of handlers run so far

vars == <<windows, windowIdCounter, activeWindowId, dragState, resizeState,
          overviewWindowId, terminalToWindow, terminals, closing, idCounter,
          inputBuffer, renameHandled, renameCall, last, nEvents>>

NoGesture == [windowId |-> 0]

Max2(a, b) == IF a >= b THEN a ELSE b
Min2(a, b) == IF a <= b THEN a ELSE b

\* ---------------------------------------------------------------- geometry
Rect(x, y, w, h) == [x |-> x, y |-> y, w |-> w, h |-> h]

\* the {x, y, w, h} literal built from a window record
windowRect(windowData) ==
    Rect(windowData.gridX, windowData.gridY, windowData.gridW, windowData.gridH)

\* the separation tests with strict comparisons: touching edges count as overlap
rectsOverlap_closed(a, b) ==
    ~(a.x + a.w < b.x \/ b.x + b.w < a.x \/
      a.y + a.h < b.y \/ b.y + b.h < a.y)

rectsOverlap(a, b) ==
    ~(a.x + a.w <= b.x \/ b.x + b.w <= a.x \/
      a.y + a.h <= b.y \/ b.y + b.h <= a.y)

\* Iteration order of the Map: insertion order, which is ascending id
\* (ids only grow and a closed id is never inserted again).
RECURSIVE KeysFrom(_, _, _)
KeysFrom(wins, k, top) ==
    IF k > top THEN <<>>
    ELSE (IF k \in DOMAIN wins THEN <<k>> ELSE <<>>) \o KeysFrom(wins, k + 1, top)

Keys(wins) ==
    IF DOMAIN wins = {} THEN <<>>
    ELSE KeysFrom(wins, 1, CHOOSE m \in DOMAIN wins : \A k \in DOMAIN wins : k <= m)

\* findConflicts without the minimized test of its skip condition
findConflicts_countMinimized(wins, rect, excludeWindowId) ==
    SelectSeq(Keys(wins),
              LAMBDA windowId:
                  /\ ~(windowId = excludeWindowId)
                  /\ rectsOverlap(rect, windowRect(wins[windowId])))

\* findConflicts without the excluded-id test of its skip condition
findConflicts_noExclude(wins, rect, excludeWindowId) ==
    SelectSeq(Keys(wins),
              LAMBDA windowId:
                  /\ ~wins[windowId].minimized
                  /\ rectsOverlap(rect, windowRect(wins[windowId])))

\* findConflicts with the minimized test of its skip condition inverted
findConflicts_skipsVisible(wins, rect, excludeWindowId) ==
    SelectSeq(Keys(wins),
              LAMBDA windowId:
                  /\ ~(windowId = excludeWindowId \/ ~wins[windowId].minimized)
                  /\ rectsOverlap(rect, windowRect(wins[windowId])))

findConflicts(wins, rect, excludeWindowId) ==
    SelectSeq(Keys(wins),
              LAMBDA windowId:
                  /\ ~(windowId = excludeWindowId \/ wins[windowId].minimized)
                  /\ rectsOverlap(rect, windowRect(wins[windowId])))

\* findFreeSpot's scan with the loops swapped: x outer, y inner
RECURSIVE scanFreeSpot_columnMajor(_, _, _, _, _)
scanFreeSpot_columnMajor(wins, width, height, x, y) ==
    IF ~(x <= gridSize - width) THEN [x |-> 0, y |-> 0]
    ELSE IF ~(y <= gridSize - height)
         THEN scanFreeSpot_columnMajor(wins, width, height, x + 1, 0)
    ELSE IF Len(findConflicts(wins, Rect(x, y, width, height), 0)) = 0
         THEN [x |-> x, y |-> y]
         ELSE scanFreeSpot_columnMajor(wins, width, height, x, y + 1)

RECURSIVE scanFreeSpot(_, _, _, _, _)
scanFreeSpot(wins, width, height, x, y) ==
    IF ~(y <= gridSize - height) THEN [x |-> 0, y |-> 0]
    ELSE IF ~(x <= gridSize - width) THEN scanFreeSpot(wins, width, height, 0, y + 1)
    ELSE IF Len(findConflicts(wins, Rect(x, y, width, height), 0)) = 0
         THEN [x |-> x, y |-> y]
         ELSE scanFreeSpot(wins, width, height, x + 1, y)

\* findFreeSpot falling back to the last origin scanned instead of the top-left
findFreeSpot_fallbackLast(wins, width, height) ==
    IF \E x \in 0 .. (gridSize - width), y \in 0 .. (gridSize - height) :
           Len(findConflicts(wins, Rect(x, y, width, height), 0)) = 0
    THEN scanFreeSpot(wins, width, height, 0, 0)
    ELSE [x |-> gridSize - width, y |-> gridSize - height]

findFreeSpot(wins, width, height) ==
    scanFreeSpot(wins, width, height, 0, 0)

\* ------------------------------------------------------ overlap resolution
Move(dir, cost, x, y, w, h) ==
    [dir |-> dir, cost |-> cost, x |-> x, y |-> y, w |-> w, h |-> h]

\* push right accepted without the test that the shrunk window fits the grid
pushRight_noFitCheck(windowRect_, priorityRect) ==
    LET overlapLeft == priorityRect.x + priorityRect.w - windowRect_.x
        newX == priorityRect.x + priorityRect.w
        overflow == Max2(0, newX + windowRect_.w - gridSize)
        newW == Max2(minWindowSize, windowRect_.w - overflow)
    IN IF overlapLeft > 0 /\ overlapLeft < windowRect_.w + priorityRect.w
       THEN <<Move("right", overlapLeft + overflow, newX, windowRect_.y, newW, windowRect_.h)>>
       ELSE <<>>

\* push right to the priority window's last column instead of past it
pushRight_inclusiveEdge(windowRect_, priorityRect) ==
    LET overlapLeft == priorityRect.x + priorityRect.w - windowRect_.x
        newX == priorityRect.x + priorityRect.w - 1
        overflow == Max2(0, newX + windowRect_.w - gridSize)
        newW == Max2(minWindowSize, windowRect_.w - overflow)
    IN IF overlapLeft > 0 /\ overlapLeft < windowRect_.w + priorityRect.w
          /\ newX + newW <= gridSize
       THEN <<Move("right", overlapLeft + overflow, newX, windowRect_.y, newW, windowRect_.h)>>
       ELSE <<>>

\* push right shrinking by the whole overflow, without the Math.max floor
pushRight_noFloor(windowRect_, priorityRect) ==
    LET overlapLeft == priorityRect.x + priorityRect.w - windowRect_.x
        newX == priorityRect.x + priorityRect.w
        overflow == Max2(0, newX + windowRect_.w - gridSize)
        newW == windowRect_.w - overflow
    IN IF overlapLeft > 0 /\ overlapLeft < windowRect_.w + priorityRect.w
          /\ newX + newW <= gridSize
       THEN <<Move("right", overlapLeft + overflow, newX, windowRect_.y, newW, windowRect_.h)>>
       ELSE <<>>

\* the "Push right" candidate (a sequence of zero or one move)
pushRight(windowRect_, priorityRect) ==
    LET overlapLeft == priorityRect.x + priorityRect.w - windowRect_.x
        newX == priorityRect.x + priorityRect.w
        overflow == Max2(0, newX + windowRect_.w - gridSize)
        newW == Max2(minWindowSize, windowRect_.w - overflow)
    IN IF overlapLeft > 0 /\ overlapLeft < windowRect_.w + priorityRect.w
          /\ newX + newW <= gridSize
       THEN <<Move("right", overlapLeft + overflow, newX, windowRect_.y, newW, windowRect_.h)>>
       ELSE <<>>

\* the "Push left" candidate accepted without the test that it clears the
\* priority rectangle
pushLeft_noClearCheck(windowRect_, priorityRect) ==
    LET overlapRight == windowRect_.x + windowRect_.w - priorityRect.x
        pushAmount == overlapRight
        rawX == windowRect_.x - pushAmount
        newX == IF rawX < 0 THEN 0 ELSE rawX
        newW == IF rawX < 0 THEN Max2(minWindowSize, windowRect_.w - (-rawX))
                ELSE windowRect_.w
    IN IF overlapRight > 0 /\ overlapRight < windowRect_.w + priorityRect.w
          /\ newX >= 0
       THEN <<Move("left", pushAmount, newX, windowRect_.y, newW, windowRect_.h)>>
       ELSE <<>>

\* the "Push left" candidate
pushLeft(windowRect_, priorityRect) ==
    LET overlapRight == windowRect_.x + windowRect_.w - priorityRect.x
        pushAmount == overlapRight
        rawX == windowRect_.x - pushAmount
        newX == IF rawX < 0 THEN 0 ELSE rawX
        newW == IF rawX < 0 THEN Max2(minWindowSize, windowRect_.w - (-rawX))
                ELSE windowRect_.w
    IN IF overlapRight > 0 /\ overlapRight < windowRect_.w + priorityRect.w
          /\ newX >= 0 /\ newX + newW <= priorityRect.x
       THEN <<Move("left", pushAmount, newX, windowRect_.y, newW, windowRect_.h)>>
       ELSE <<>>

\* the "Push down" candidate taking all the room below the priority rectangle
pushDown_fillsRegion(windowRect_, priorityRect) ==
    LET overlapTop == priorityRect.y + priorityRect.h - windowRect_.y
        newY == priorityRect.y + priorityRect.h
        overflow == Max2(0, newY + windowRect_.h - gridSize)
        newH == Max2(minWindowSize, gridSize - newY)
    IN IF overlapTop > 0 /\ overlapTop < windowRect_.h + priorityRect.h
          /\ newY + newH <= gridSize
       THEN <<Move("down", overlapTop + overflow, windowRect_.x, newY, windowRect_.w, newH)>>
       ELSE <<>>

\* the "Push down" candidate
pushDown(windowRect_, priorityRect) ==
    LET overlapTop == priorityRect.y + priorityRect.h - windowRect_.y
        newY == priorityRect.y + priorityRect.h
        overflow == Max2(0, newY + windowRect_.h - gridSize)
        newH == Max2(minWindowSize, windowRect_.h - overflow)
    IN IF overlapTop > 0 /\ overlapTop < windowRect_.h + priorityRect.h
          /\ newY + newH <= gridSize
       THEN <<Move("down", overlapTop + overflow, windowRect_.x, newY, windowRect_.w, newH)>>
       ELSE <<>>

\* the "Push up" candidate rejected when the window would leave the grid
pushUp_noShrink(windowRect_, priorityRect) ==
    LET overlapBottom == windowRect_.y + windowRect_.h - priorityRect.y
        pushAmount == overlapBottom
        newY == windowRect_.y - pushAmount
        newH == windowRect_.h
    IN IF overlapBottom > 0 /\ overlapBottom < windowRect_.h + priorityRect.h
          /\ newY >= 0 /\ newY + newH <= priorityRect.y
       THEN <<Move("up", pushAmount, windowRect_.x, newY, windowRect_.w, newH)>>
       ELSE <<>>

\* the "Push up" candidate
pushUp(windowRect_, priorityRect) ==
    LET overlapBottom == windowRect_.y + windowRect_.h - priorityRect.y
        pushAmount == overlapBottom
        rawY == windowRect_.y - pushAmount
        newY == IF rawY < 0 THEN 0 ELSE rawY
        newH == IF rawY < 0 THEN Max2(minWindowSize, windowRect_.h - (-rawY))
                ELSE windowRect_.h
    IN IF overlapBottom > 0 /\ overlapBottom < windowRect_.h + priorityRect.h
          /\ newY >= 0 /\ newY + newH <= priorityRect.y
       THEN <<Move("up", pushAmount, windowRect_.x, newY, windowRect_.w, newH)>>
       ELSE <<>>

\* an insertion that puts a move before the moves of equal cost
RECURSIVE insertByCost_beforeEqual(_, _)
insertByCost_beforeEqual(sorted, m) ==
    IF sorted = <<>> THEN <<m>>
    ELSE IF m.cost <= Head(sorted).cost THEN <<m>> \o sorted
    ELSE <<Head(sorted)>> \o insertByCost_beforeEqual(Tail(sorted), m)

\* moves.sort((a, b) => a.cost - b.cost): a stable sort, ascending by cost
RECURSIVE insertByCost(_, _)
insertByCost(sorted, m) ==
    IF sorted = <<>> THEN <<m>>
    ELSE IF m.cost < Head(sorted).cost THEN <<m>> \o sorted
    ELSE <<Head(sorted)>> \o insertByCost(Tail(sorted), m)

RECURSIVE sortByCost(_)
sortByCost(moves) ==
    IF moves = <<>> THEN <<>>
    ELSE insertByCost(sortByCost(SubSeq(moves, 1, Len(moves) - 1)), moves[Len(moves)])

\* the four fallback regions of forceFit, in the order they are tried
forceFitSpaces(priorityRect) ==
    << [x |-> priorityRect.x + priorityRect.w, y |-> 0,
        maxW |-> gridSize - (priorityRect.x + priorityRect.w), maxH |-> gridSize],
       [x |-> 0, y |-> 0, maxW |-> priorityRect.x, maxH |-> gridSize],
       [x |-> 0, y |-> priorityRect.y + priorityRect.h,
        maxW |-> gridSize, maxH |-> gridSize - (priorityRect.y + priorityRect.h)],
       [x |-> 0, y |-> 0, maxW |-> gridSize, maxH |-> priorityRect.y] >>

\* forceFit accepting a region on its width alone
forceFit_widthOnly(wins, windowId, priorityRect) ==
    IF windowId \notin DOMAIN wins THEN wins
    ELSE LET spaces == forceFitSpaces(priorityRect)
             fits == SelectSeq(spaces, LAMBDA space : space.maxW >= minWindowSize)
         IN IF fits = <<>> THEN wins
            ELSE LET space == Head(fits)
                     windowData == wins[windowId]
                 IN [wins EXCEPT ![windowId] =
                        [windowData EXCEPT
                            !.gridX = space.x,
                            !.gridY = space.y,
                            !.gridW = Max2(minWindowSize, Min2(windowData.gridW, space.maxW)),
                            !.gridH = Max2(minWindowSize, Min2(windowData.gridH, space.maxH))]]

forceFit(wins, windowId, priorityRect) ==
    IF windowId \notin DOMAIN wins THEN wins
    ELSE LET spaces == forceFitSpaces(priorityRect)
             fits == SelectSeq(spaces, LAMBDA space :
                         space.maxW >= minWindowSize /\ space.maxH >= minWindowSize)
         IN IF fits = <<>> THEN wins
            ELSE LET space == Head(fits)
                     windowData == wins[windowId]
                 IN [wins EXCEPT ![windowId] =
                        [windowData EXCEPT
                            !.gridX = space.x,
                            !.gridY = space.y,
                            !.gridW = Max2(minWindowSize, Min2(windowData.gridW, space.maxW)),
                            !.gridH = Max2(minWindowSize, Min2(windowData.gridH, space.maxH))]]

\* the moves array of pushWindowAway: the valid candidates in the order they
\* are pushed onto it
candidateMoves(wr, priorityRect) ==
    pushRight(wr, priorityRect) \o pushLeft(wr, priorityRect)
    \o pushDown(wr, priorityRect) \o pushUp(wr, priorityRect)

pushWindowAway(wins, windowId, priorityRect) ==
    IF windowId \notin DOMAIN wins THEN wins
    ELSE LET windowData == wins[windowId]
             wr == windowRect(windowData)
             moves == candidateMoves(wr, priorityRect)
         IN IF Len(moves) = 0 THEN forceFit(wins, windowId, priorityRect)
            ELSE LET bestMove == sortByCost(moves)[1]
                 IN [wins EXCEPT ![windowId] =
                        [windowData EXCEPT
                            !.gridX = bestMove.x,
                            !.gridY = bestMove.y,
                            !.gridW = bestMove.w,
                            !.gridH = bestMove.h]]

\* for (const conflictId of conflicts) this.pushWindowAway(conflictId, priorityRect)
RECURSIVE pushConflicts(_, _, _)
pushConflicts(wins, conflicts, priorityRect) ==
    IF conflicts = <<>> THEN wins
    ELSE pushConflicts(pushWindowAway(wins, Head(conflicts), priorityRect),
                       Tail(conflicts), priorityRect)

\* the loop with the conflicts computed without excluding the priority window
RECURSIVE resolveLoop_noExclude(_, _, _, _)
resolveLoop_noExclude(wins, priorityWindowId, priorityRect, iterations) ==
    IF ~(iterations < maxIterations) THEN wins
    ELSE LET conflicts == findConflicts(wins, priorityRect, 0)
         IN IF Len(conflicts) = 0 THEN wins
            ELSE resolveLoop_noExclude(pushConflicts(wins, conflicts, priorityRect),
                                       priorityWindowId, priorityRect, iterations + 1)

\* the while loop of resolveOverlaps
RECURSIVE resolveLoop(_, _, _, _)
resolveLoop(wins, priorityWindowId, priorityRect, iterations) ==
    IF ~(iterations < maxIterations) THEN wins
    ELSE LET conflicts == findConflicts(wins, priorityRect, priorityWindowId)
         IN IF Len(conflicts) = 0 THEN wins
            ELSE resolveLoop(pushConflicts(wins, conflicts, priorityRect),
                             priorityWindowId, priorityRect, iterations + 1)

resolveOverlaps(wins, priorityWindowId) ==
    IF priorityWindowId \notin DOMAIN wins THEN wins
    ELSE resolveLoop(wins, priorityWindowId, windowRect(wins[priorityWindowId]), 0)

\* ------------------------------------------------- content-resize notices
\* triggerContentResize: the 'window-resize' event dispatched for a window of
\* the registry, none for an unknown id
triggerContentResize(wins, windowId) ==
    IF windowId \notin DOMAIN wins THEN <<>>
    ELSE << [type |-> "resize", windowId |-> windowId, windowData |-> wins[windowId]] >>

\* the events forceFit dispatches: one when a region takes the window
forceFitNotifies(wins, windowId, priorityRect) ==
    IF windowId \notin DOMAIN wins THEN <<>>
    ELSE LET fits == SelectSeq(forceFitSpaces(priorityRect), LAMBDA space :
                         space.maxW >= minWindowSize /\ space.maxH >= minWindowSize)
         IN IF fits = <<>> THEN <<>>
            ELSE triggerContentResize(forceFit(wins, windowId, priorityRect), windowId)

\* pushWindowAway dispatching only on its forceFit path
pushWindowAwayNotifies_fallbackOnly(wins, windowId, priorityRect) ==
    IF windowId \notin DOMAIN wins THEN <<>>
    ELSE IF Len(candidateMoves(windowRect(wins[windowId]), priorityRect)) = 0
    THEN forceFitNotifies(wins, windowId, priorityRect)
    ELSE <<>>

\* the events pushWindowAway dispatches: forceFit's when there is no
\* candidate, else one after the best move is applied
pushWindowAwayNotifies(wins, windowId, priorityRect) ==
    IF windowId \notin DOMAIN wins THEN <<>>
    ELSE IF Len(candidateMoves(windowRect(wins[windowId]), priorityRect)) = 0
    THEN forceFitNotifies(wins, windowId, priorityRect)
    ELSE triggerContentResize(pushWindowAway(wins, windowId, priorityRect), windowId)

RECURSIVE pushConflictsNotifies(_, _, _)
pushConflictsNotifies(wins, conflicts, priorityRect) ==
    IF conflicts = <<>> THEN <<>>
    ELSE pushWindowAwayNotifies(wins, Head(conflicts), priorityRect)
         \o pushConflictsNotifies(pushWindowAway(wins, Head(conflicts), priorityRect),
                                  Tail(conflicts), priorityRect)

\* the events of the while loop of resolveOverlaps, pass after pass
RECURSIVE resolveLoopNotifies(_, _, _, _)
resolveLoopNotifies(wins, priorityWindowId, priorityRect, iterations) ==
    IF ~(iterations < maxIterations) THEN <<>>
    ELSE LET conflicts == findConflicts(wins, priorityRect, priorityWindowId)
         IN IF Len(conflicts) = 0 THEN <<>>
            ELSE pushConflictsNotifies(wins, conflicts, priorityRect)
                 \o resolveLoopNotifies(pushConflicts(wins, conflicts, priorityRect),
                                        priorityWindowId, priorityRect, iterations + 1)

resolveOverlapsNotifies(wins, priorityWindowId) ==
    IF priorityWindowId \notin DOMAIN wins THEN <<>>
    ELSE resolveLoopNotifies(wins, priorityWindowId,
                             windowRect(wins[priorityWindowId]), 0)

\* the value of iterations when the while loop of resolveOverlaps is left:
\* the number of passes that pushed windows
RECURSIVE resolveLoopPasses(_, _, _, _)
resolveLoopPasses(wins, priorityWindowId, priorityRect, iterations) ==
    IF ~(iterations < maxIterations) THEN iterations
    ELSE LET conflicts == findConflicts(wins, priorityRect, priorityWindowId)
         IN IF Len(conflicts) = 0 THEN iterations
            ELSE resolveLoopPasses(pushConflicts(wins, conflicts, priorityRect),
                                   priorityWindowId, priorityRect, iterations + 1)

resolveOverlapsPasses(wins, priorityWindowId) ==
    IF priorityWindowId \notin DOMAIN wins THEN 0
    ELSE resolveLoopPasses(wins, priorityWindowId,
                           windowRect(wins[priorityWindowId]), 0)

\* ---------------------------------------------------------------- registry
\* The fields of the window manager and of the application as one record, so
\* that a method is an operator from the state before the call to the state
\* after it; events collects the notifications the running handler delivers.
wm ==
    [windows |-> windows, windowIdCounter |-> windowIdCounter,
     activeWindowId |-> activeWindowId, dragState |-> dragState,
     resizeState |-> resizeState, overviewWindowId |-> overviewWindowId,
     terminalToWindow |-> terminalToWindow, terminals |-> terminals,
     closing |-> closing, idCounter |-> idCounter, events |-> <<>>]

\* a Map without one key
Without(map, key) == [k \in DOMAIN map \ {key} |-> map[k]]

\* a Map with one key set
With(map, key, value) == [k \in DOMAIN map \cup {key} |-> IF k = key THEN value ELSE map[k]]

\* parseInt(w.element.style.zIndex || 10); zIndex 0 stands for the unset style
zIndexOf(windowData) == IF windowData.zIndex = 0 THEN baseZIndex ELSE windowData.zIndex

RECURSIVE MaxOver(_, _)
MaxOver(floor, S) ==
    IF S = {} THEN floor
    ELSE LET v == CHOOSE n \in S : TRUE IN MaxOver(Max2(floor, v), S \ {v})

\* bringToFront moving the focus without the test that the window exists
bringToFront_unguarded(s, windowId) ==
    LET maxZ == MaxOver(baseZIndex, {zIndexOf(s.windows[id]) : id \in DOMAIN s.windows})
    IN [s EXCEPT
           !.windows = [id \in DOMAIN s.windows |->
                           [(IF id = windowId
                             THEN [s.windows[id] EXCEPT !.zIndex = maxZ + 1]
                             ELSE s.windows[id])
                            EXCEPT !.active = (id = windowId)]],
           !.activeWindowId = windowId]

\* bringToFront giving the window the highest z-order in use instead of one more
bringToFront_noIncrement(s, windowId) ==
    LET maxZ == MaxOver(baseZIndex, {zIndexOf(s.windows[id]) : id \in DOMAIN s.windows})
    IN IF windowId \notin DOMAIN s.windows THEN s
       ELSE [s EXCEPT
                !.windows = [id \in DOMAIN s.windows |->
                                [(IF id = windowId
                                  THEN [s.windows[id] EXCEPT !.zIndex = maxZ]
                                  ELSE s.windows[id])
                                 EXCEPT !.active = (id = windowId)]],
                !.activeWindowId = windowId]

\* bringToFront numbering by the count of windows instead of the highest z-order
bringToFront_byCount(s, windowId) ==
    LET maxZ == baseZIndex + Cardinality(DOMAIN s.windows)
    IN IF windowId \notin DOMAIN s.windows THEN s
       ELSE [s EXCEPT
                !.windows = [id \in DOMAIN s.windows |->
                                [(IF id = windowId
                                  THEN [s.windows[id] EXCEPT !.zIndex = maxZ + 1]
                                  ELSE s.windows[id])
                                 EXCEPT !.active = (id = windowId)]],
                !.activeWindowId = windowId]

bringToFront(s, windowId) ==
    LET maxZ == MaxOver(baseZIndex, {zIndexOf(s.windows[id]) : id \in DOMAIN s.windows})
    IN IF windowId \notin DOMAIN s.windows THEN s
       ELSE [s EXCEPT
                !.windows = [id \in DOMAIN s.windows |->
                                [(IF id = windowId
                                  THEN [s.windows[id] EXCEPT !.zIndex = maxZ + 1]
                                  ELSE s.windows[id])
                                 EXCEPT !.active = (id = windowId)]],
                !.activeWindowId = windowId]

\* The options createWindow is called with: App.openOverviewWindow gives a
\* title and an explicit rectangle
overviewOptions ==
    [title |-> "WORKTREE OVERVIEW", terminalId |-> 0,
     hasPosition |-> TRUE, gridX |-> 0, gridY |-> 0,
     hasSize |-> TRUE, gridW |-> 8, gridH |-> 4]

\* App.openTerminalWindow gives a title, the terminal and a size only
terminalOptions(title, terminalId) ==
    [title |-> title, terminalId |-> terminalId,
     hasPosition |-> FALSE, gridX |-> 0, gridY |-> 0,
     hasSize |-> TRUE, gridW |-> 4, gridH |-> 4]

\* createWindow(type) with options = {}: no title, no terminal, no position,
\* no size
noOptions ==
    [title |-> "", terminalId |-> 0,
     hasPosition |-> FALSE, gridX |-> 0, gridY |-> 0,
     hasSize |-> FALSE, gridW |-> 0, gridH |-> 0]

WindowTypes == {"overview", "terminal"}

\* the names a rename gives
NewNames == {"renamed"}

\* this.resolveOverlaps(priorityWindowId) on the registry of s, with the
\* content-resize events it dispatches
resolveOverlapsIn(s, priorityWindowId) ==
    [s EXCEPT !.windows = resolveOverlaps(@, priorityWindowId),
              !.events = @ \o resolveOverlapsNotifies(s.windows, priorityWindowId)]

\* createWindow numbering the window with the lowest id the registry does
\* not hold
createWindow_lowestFreeId(s, type, options) ==
    LET id == CHOOSE n \in 1 .. (s.windowIdCounter + 1) :
                  /\ n \notin DOMAIN s.windows
                  /\ \A m \in 1 .. (n - 1) : m \in DOMAIN s.windows
        \* options.gridW ?? 4, options.gridH ?? 4
        width == IF options.hasSize THEN options.gridW ELSE 4
        height == IF options.hasSize THEN options.gridH ELSE 4
        freeSpot == findFreeSpot(s.windows, width, height)
        gridX == IF options.hasPosition THEN options.gridX ELSE freeSpot.x
        gridY == IF options.hasPosition THEN options.gridY ELSE freeSpot.y
        \* options.title || (type === 'overview' ? ... : 'TERMINAL')
        title == IF options.title # "" THEN options.title
                 ELSE IF type = "overview" THEN "WORKTREE COMMAND CENTER"
                 ELSE "TERMINAL"
        windowData == [id |-> id, type |-> type, title |-> title,
                       gridX |-> gridX, gridY |-> gridY,
                       gridW |-> width, gridH |-> height,
                       terminalId |-> options.terminalId,
                       minimized |-> FALSE, zIndex |-> 0, active |-> FALSE]
        inserted == With(s.windows, id, windowData)
    IN bringToFront(resolveOverlapsIn([s EXCEPT !.windowIdCounter = Max2(@, id),
                                                !.windows = inserted], id), id)

\* createWindow without the overlap resolution
createWindow_unresolved(s, type, options) ==
    LET id == s.windowIdCounter + 1
        \* options.gridW ?? 4, options.gridH ?? 4
        width == IF options.hasSize THEN options.gridW ELSE 4
        height == IF options.hasSize THEN options.gridH ELSE 4
        freeSpot == findFreeSpot(s.windows, width, height)
        gridX == IF options.hasPosition THEN options.gridX ELSE freeSpot.x
        gridY == IF options.hasPosition THEN options.gridY ELSE freeSpot.y
        \* options.title || (type === 'overview' ? ... : 'TERMINAL')
        title == IF options.title # "" THEN options.title
                 ELSE IF type = "overview" THEN "WORKTREE COMMAND CENTER"
                 ELSE "TERMINAL"
        windowData == [id |-> id, type |-> type, title |-> title,
                       gridX |-> gridX, gridY |-> gridY,
                       gridW |-> width, gridH |-> height,
                       terminalId |-> options.terminalId,
                       minimized |-> FALSE, zIndex |-> 0, active |-> FALSE]
        inserted == With(s.windows, id, windowData)
    IN bringToFront([s EXCEPT !.windowIdCounter = id, !.windows = inserted], id)

createWindow(s, type, options) ==
    LET id == s.windowIdCounter + 1
        \* options.gridW ?? 4, options.gridH ?? 4
        width == IF options.hasSize THEN options.gridW ELSE 4
        height == IF options.hasSize THEN options.gridH ELSE 4
        freeSpot == findFreeSpot(s.windows, width, height)
        gridX == IF options.hasPosition THEN options.gridX ELSE freeSpot.x
        gridY == IF options.hasPosition THEN options.gridY ELSE freeSpot.y
        \* options.title || (type === 'overview' ? ... : 'TERMINAL')
        title == IF options.title # "" THEN options.title
                 ELSE IF type = "overview" THEN "WORKTREE COMMAND CENTER"
                 ELSE "TERMINAL"
        windowData == [id |-> id, type |-> type, title |-> title,
                       gridX |-> gridX, gridY |-> gridY,
                       gridW |-> width, gridH |-> height,
                       terminalId |-> options.terminalId,
                       minimized |-> FALSE, zIndex |-> 0, active |-> FALSE]
        inserted == With(s.windows, id, windowData)
    IN bringToFront(resolveOverlapsIn([s EXCEPT !.windowIdCounter = id,
                                                !.windows = inserted], id), id)

\* handleWindowClose emptying the sidebar when the overview window closes
handleWindowClose_clearsSidebar(s, windowId, windowData) ==
    IF windowData.type = "overview"
    THEN [s EXCEPT !.overviewWindowId = 0, !.terminals = <<>>]
    ELSE IF windowData.type = "terminal" /\ windowData.terminalId # 0
    THEN [s EXCEPT !.terminalToWindow = Without(@, windowData.terminalId)]
    ELSE s

\* App.handleWindowClose, the listener the App constructor registers
\* handleWindowClose leaving the terminal's window mapping in place
handleWindowClose_keepsMapping(s, windowId, windowData) ==
    IF windowData.type = "overview" THEN [s EXCEPT !.overviewWindowId = 0]
    ELSE s

handleWindowClose(s, windowId, windowData) ==
    IF windowData.type = "overview" THEN [s EXCEPT !.overviewWindowId = 0]
    ELSE IF windowData.type = "terminal" /\ windowData.terminalId # 0
    THEN [s EXCEPT !.terminalToWindow = Without(@, windowData.terminalId)]
    ELSE s

\* this.onWindowClose(windowId, windowData): the close notification, logged
\* with the ids the registry holds when the listener is called
onWindowClose(s, windowId, windowData) ==
    handleWindowClose(
        [s EXCEPT !.events = Append(@, [type |-> "close", windowId |-> windowId,
                                        windowData |-> windowData,
                                        registered |-> DOMAIN s.windows])],
        windowId, windowData)

\* closeWindow deleting the record before it notifies the listener
closeWindow_deleteFirst(s, windowId) ==
    IF windowId \notin DOMAIN s.windows THEN s
    ELSE onWindowClose([s EXCEPT !.windows = Without(@, windowId)],
                       windowId, s.windows[windowId])

closeWindow(s, windowId) ==
    IF windowId \notin DOMAIN s.windows THEN s
    ELSE LET notified == onWindowClose(s, windowId, s.windows[windowId])
         IN [notified EXCEPT !.windows = Without(@, windowId)]

minimizeWindow(s, windowId) ==
    IF windowId \notin DOMAIN s.windows THEN s
    ELSE [s EXCEPT !.windows[windowId].minimized = TRUE]

restoreWindow(s, windowId) ==
    IF windowId \notin DOMAIN s.windows THEN s
    ELSE bringToFront(
            resolveOverlapsIn([s EXCEPT !.windows[windowId].minimized = FALSE], windowId),
            windowId)

updateWindowTitle(s, windowId, title) ==
    IF windowId \notin DOMAIN s.windows THEN s
    ELSE [s EXCEPT !.windows[windowId].title = title]

\* ------------------------------------------------------------- interaction
\* the eight resize handles; a handle is the set of letters of its data-resize
ResizeDirections ==
    {{"e"}, {"s"}, {"s", "e"}, {"w"}, {"n"}, {"n", "w"}, {"n", "e"}, {"s", "w"}}

\* onControls: e.target.closest('.window-controls'), the pointer went down on
\* the header's minimize or close button
startDrag(s, windowId, onControls) ==
    IF onControls THEN s
    ELSE IF windowId \notin DOMAIN s.windows THEN s
    ELSE bringToFront(
            [s EXCEPT !.dragState =
                [windowId |-> windowId,
                 startGridX |-> s.windows[windowId].gridX,
                 startGridY |-> s.windows[windowId].gridY]],
            windowId)

startResize(s, windowId, direction) ==
    IF windowId \notin DOMAIN s.windows THEN s
    ELSE [s EXCEPT !.resizeState =
            [windowId |-> windowId, direction |-> direction,
             startGridX |-> s.windows[windowId].gridX,
             startGridY |-> s.windows[windowId].gridY,
             startGridW |-> s.windows[windowId].gridW,
             startGridH |-> s.windows[windowId].gridH]]

\* handleDrag clamping the position as if the window had the minimum size
handleDrag_clampMinSize(s, gridDeltaX, gridDeltaY) ==
    LET windowId == s.dragState.windowId IN
    IF windowId \notin DOMAIN s.windows THEN s
    ELSE LET windowData == s.windows[windowId]
             newGridX == Max2(0, Min2(gridSize - minWindowSize,
                                      s.dragState.startGridX + gridDeltaX))
             newGridY == Max2(0, Min2(gridSize - minWindowSize,
                                      s.dragState.startGridY + gridDeltaY))
         IN IF newGridX # windowData.gridX \/ newGridY # windowData.gridY
            THEN resolveOverlapsIn([s EXCEPT !.windows[windowId].gridX = newGridX,
                                             !.windows[windowId].gridY = newGridY],
                                   windowId)
            ELSE s

\* gridDeltaX, gridDeltaY: Math.round of the pointer's pixel delta over the cell size
handleDrag(s, gridDeltaX, gridDeltaY) ==
    LET windowId == s.dragState.windowId IN
    IF windowId \notin DOMAIN s.windows THEN s
    ELSE LET windowData == s.windows[windowId]
             newGridX == Max2(0, Min2(gridSize - windowData.gridW,
                                      s.dragState.startGridX + gridDeltaX))
             newGridY == Max2(0, Min2(gridSize - windowData.gridH,
                                      s.dragState.startGridY + gridDeltaY))
         IN IF newGridX # windowData.gridX \/ newGridY # windowData.gridY
            THEN resolveOverlapsIn([s EXCEPT !.windows[windowId].gridX = newGridX,
                                             !.windows[windowId].gridY = newGridY],
                                   windowId)
            ELSE s

\* handleResize without the minimum size on the east and south handles
handleResize_noMinimum(s, gridDeltaX, gridDeltaY) ==
    LET windowId == s.resizeState.windowId
        rs == s.resizeState
    IN
    IF windowId \notin DOMAIN s.windows THEN s
    ELSE LET windowData == s.windows[windowId]
             \* direction.includes('e')
             eW == IF "e" \in rs.direction
                   THEN Min2(gridSize - rs.startGridX, rs.startGridW + gridDeltaX)
                   ELSE rs.startGridW
             \* direction.includes('w')
             clampedDeltaX == Max2(-rs.startGridX,
                                   Min2(rs.startGridW - minWindowSize, gridDeltaX))
             newGridX == IF "w" \in rs.direction THEN rs.startGridX + clampedDeltaX
                         ELSE rs.startGridX
             newGridW == IF "w" \in rs.direction THEN rs.startGridW - clampedDeltaX ELSE eW
             \* direction.includes('s')
             sH == IF "s" \in rs.direction
                   THEN Min2(gridSize - rs.startGridY, rs.startGridH + gridDeltaY)
                   ELSE rs.startGridH
             \* direction.includes('n')
             clampedDeltaY == Max2(-rs.startGridY,
                                   Min2(rs.startGridH - minWindowSize, gridDeltaY))
             newGridY == IF "n" \in rs.direction THEN rs.startGridY + clampedDeltaY
                         ELSE rs.startGridY
             newGridH == IF "n" \in rs.direction THEN rs.startGridH - clampedDeltaY ELSE sH
         IN IF newGridX # windowData.gridX \/ newGridY # windowData.gridY
               \/ newGridW # windowData.gridW \/ newGridH # windowData.gridH
            THEN resolveOverlapsIn([s EXCEPT !.windows[windowId].gridX = newGridX,
                                             !.windows[windowId].gridY = newGridY,
                                             !.windows[windowId].gridW = newGridW,
                                             !.windows[windowId].gridH = newGridH],
                                   windowId)
            ELSE s

handleResize(s, gridDeltaX, gridDeltaY) ==
    LET windowId == s.resizeState.windowId
        rs == s.resizeState
    IN
    IF windowId \notin DOMAIN s.windows THEN s
    ELSE LET windowData == s.windows[windowId]
             \* direction.includes('e')
             eW == IF "e" \in rs.direction
                   THEN Max2(minWindowSize,
                             Min2(gridSize - rs.startGridX, rs.startGridW + gridDeltaX))
                   ELSE rs.startGridW
             \* direction.includes('w')
             clampedDeltaX == Max2(-rs.startGridX,
                                   Min2(rs.startGridW - minWindowSize, gridDeltaX))
             newGridX == IF "w" \in rs.direction THEN rs.startGridX + clampedDeltaX
                         ELSE rs.startGridX
             newGridW == IF "w" \in rs.direction THEN rs.startGridW - clampedDeltaX ELSE eW
             \* direction.includes('s')
             sH == IF "s" \in rs.direction
                   THEN Max2(minWindowSize,
                             Min2(gridSize - rs.startGridY, rs.startGridH + gridDeltaY))
                   ELSE rs.startGridH
             \* direction.includes('n')
             clampedDeltaY == Max2(-rs.startGridY,
                                   Min2(rs.startGridH - minWindowSize, gridDeltaY))
             newGridY == IF "n" \in rs.direction THEN rs.startGridY + clampedDeltaY
                         ELSE rs.startGridY
             newGridH == IF "n" \in rs.direction THEN rs.startGridH - clampedDeltaY ELSE sH
         IN IF newGridX # windowData.gridX \/ newGridY # windowData.gridY
               \/ newGridW # windowData.gridW \/ newGridH # windowData.gridH
            THEN resolveOverlapsIn([s EXCEPT !.windows[windowId].gridX = newGridX,
                                             !.windows[windowId].gridY = newGridY,
                                             !.windows[windowId].gridW = newGridW,
                                             !.windows[windowId].gridH = newGridH],
                                   windowId)
            ELSE s

\* handleMouseMove taking the active window as dragged when no gesture is on
handleMouseMove_dragsActive(s, gridDeltaX, gridDeltaY) ==
    IF s.dragState # NoGesture THEN handleDrag(s, gridDeltaX, gridDeltaY)
    ELSE IF s.resizeState # NoGesture THEN handleResize(s, gridDeltaX, gridDeltaY)
    ELSE IF s.activeWindowId \in DOMAIN s.windows
    THEN handleDrag([s EXCEPT !.dragState =
                        [windowId |-> s.activeWindowId,
                         startGridX |-> s.windows[s.activeWindowId].gridX,
                         startGridY |-> s.windows[s.activeWindowId].gridY]],
                    gridDeltaX, gridDeltaY)
    ELSE s

handleMouseMove(s, gridDeltaX, gridDeltaY) ==
    IF s.dragState # NoGesture THEN handleDrag(s, gridDeltaX, gridDeltaY)
    ELSE IF s.resizeState # NoGesture THEN handleResize(s, gridDeltaX, gridDeltaY)
    ELSE s

\* handleMouseUp ending the drag, or else the resize
handleMouseUp_elseIf(s) ==
    IF s.dragState # NoGesture
    THEN [s EXCEPT !.dragState = NoGesture,
                   !.events = @ \o triggerContentResize(s.windows, s.dragState.windowId)]
    ELSE [s EXCEPT !.resizeState = NoGesture,
                   !.events = @ \o triggerContentResize(s.windows, s.resizeState.windowId)]

handleMouseUp(s) ==
    LET afterDrag ==
            IF s.dragState # NoGesture
            THEN [s EXCEPT !.dragState = NoGesture,
                           !.events = @ \o triggerContentResize(s.windows,
                                                                s.dragState.windowId)]
            ELSE s
    IN IF afterDrag.resizeState # NoGesture
       THEN [afterDrag EXCEPT
                !.resizeState = NoGesture,
                !.events = @ \o triggerContentResize(afterDrag.windows,
                                                     afterDrag.resizeState.windowId)]
       ELSE afterDrag

\* ------------------------------------------------------------- application
\* windowManager.getOverviewWindow(): the id of the first overview window, 0 if none
getOverviewWindow(s) ==
    LET ids == SelectSeq(Keys(s.windows), LAMBDA id : s.windows[id].type = "overview")
    IN IF ids = <<>> THEN 0 ELSE Head(ids)

openOverviewWindow(s) ==
    LET existing == getOverviewWindow(s)
    IN IF existing # 0 THEN bringToFront(restoreWindow(s, existing), existing)
       ELSE LET created == createWindow(s, "overview", overviewOptions)
            IN [created EXCEPT !.overviewWindowId = created.windowIdCounter]

toggleOverviewWindow(s) ==
    LET existing == getOverviewWindow(s)
    IN IF existing # 0
       THEN IF s.windows[existing].minimized THEN restoreWindow(s, existing)
            ELSE minimizeWindow(s, existing)
       ELSE openOverviewWindow(s)

\* ids of the entries of sidebar.terminals, in insertion order
TerminalIds(s) == [i \in DOMAIN s.terminals |-> s.terminals[i].id]

hasTerminal(s, id) == \E i \in DOMAIN s.terminals : s.terminals[i].id = id

terminalName(s, id) ==
    LET i == CHOOSE i \in DOMAIN s.terminals : s.terminals[i].id = id
    IN s.terminals[i].name

openTerminalWindow(s, terminalId) ==
    IF /\ terminalId \in DOMAIN s.terminalToWindow
       /\ s.terminalToWindow[terminalId] \in DOMAIN s.windows
    THEN bringToFront(restoreWindow(s, s.terminalToWindow[terminalId]),
                      s.terminalToWindow[terminalId])
    ELSE IF ~hasTerminal(s, terminalId) THEN s
    ELSE LET created == createWindow(s, "terminal",
                            terminalOptions(terminalName(s, terminalId), terminalId))
         IN [created EXCEPT
                !.terminalToWindow = With(@, terminalId, created.windowIdCounter)]

selectTerminal(s, id) ==
    IF id \in DOMAIN s.terminalToWindow
    THEN bringToFront(restoreWindow(s, s.terminalToWindow[id]), s.terminalToWindow[id])
    ELSE openTerminalWindow(s, id)

\* the name handleLaunch gives the sidebar entry: `${owner}/${repo}:${branch}`
LaunchedName == "owner/repo:branch"

\* handleLaunch from the answer of terminalAPI.create on: the main process has
\* made terminal ++idCounter, the renderer registers it and opens its window
handleLaunch(s) ==
    LET terminalId == s.idCounter + 1
    IN openTerminalWindow(
           [s EXCEPT !.idCounter = terminalId,
                     !.terminals = Append(@, [id |-> terminalId, name |-> LaunchedName])],
           terminalId)

\* sidebar.getNextId(closingId), 0 for null
getNextId(s, closingId) ==
    LET ids == TerminalIds(s)
        index == IF \E i \in DOMAIN ids : ids[i] = closingId
                 THEN CHOOSE i \in DOMAIN ids : ids[i] = closingId
                 ELSE 0
    IN IF Len(ids) <= 1 THEN 0
       ELSE IF index < Len(ids) THEN ids[index + 1]
       ELSE ids[index - 1]

\* App.closeTerminal(id) up to its await of terminalAPI.close(id)
closeTerminal(s, id) ==
    LET unmapped ==
            IF id \in DOMAIN s.terminalToWindow
            THEN [s EXCEPT !.windows = IF s.terminalToWindow[id] \in DOMAIN s.windows
                                       THEN Without(@, s.terminalToWindow[id]) ELSE @,
                           !.terminalToWindow = Without(@, id)]
            ELSE s
    IN [unmapped EXCEPT
           !.closing = Append(@, [id |-> id, nextId |-> getNextId(unmapped, id)])]

\* App.closeTerminal after the await, for the i-th waiting call
closeTerminalResume(s, i) ==
    LET call == s.closing[i]
        cleaned == [s EXCEPT
                       !.closing = SubSeq(@, 1, i - 1) \o SubSeq(@, i + 1, Len(@)),
                       !.terminals = SelectSeq(@, LAMBDA t : t.id # call.id)]
    IN IF call.nextId # 0 THEN selectTerminal(cleaned, call.nextId) ELSE cleaned

renameTerminal(s, id, newName) ==
    LET renamed == [s EXCEPT !.terminals =
                        [i \in DOMAIN @ |->
                            IF @[i].id = id THEN [@[i] EXCEPT !.name = newName] ELSE @[i]]]
    IN IF id \in DOMAIN s.terminalToWindow
       THEN updateWindowTitle(renamed, s.terminalToWindow[id], newName)
       ELSE renamed

\* ------------------------------------------------ the /rename command
\* Strings are sequences of character codes.
Code ==
    [slash |-> 47, r |-> 114, e |-> 101, n |-> 110, a |-> 97, m |-> 109,
     space |-> 32, doubleQuote |-> 34, singleQuote |-> 39,
     cr |-> 13, lf |-> 10, del |-> 127, etx |-> 3, esc |-> 27]

\* the text "/rename" of RENAME_REGEX
SlashRename == <<Code.slash, Code.r, Code.e, Code.n, Code.a, Code.m, Code.e>>

\* \s, among the characters a buffer can hold
IsSpace(c) == c = Code.space

\* ["']
IsQuote(c) == c = Code.doubleQuote \/ c = Code.singleQuote

\* the character classes of RENAME_REGEX: \s, ["'] and [^"']
IsClass(class, c) ==
    CASE class = "space" -> IsSpace(c)
      [] class = "quote" -> IsQuote(c)
      [] class = "name" -> ~IsQuote(c)

AllOf(str, from, to, class) == \A i \in from .. to : IsClass(class, str[i])

\* the ways RENAME_REGEX = /^\/rename\s+["']?([^"']+)["']?\s*$/ matches str:
\* after "/rename", k characters of \s+, q1 of the first ["']?, n of the
\* group, q2 of the second ["']?, and \s* up to the end
renameMatches_noSpace(str) ==
    IF Len(str) < Len(SlashRename) \/ SubSeq(str, 1, Len(SlashRename)) # SlashRename
    THEN {}
    ELSE LET rest == SubSeq(str, Len(SlashRename) + 1, Len(str))
         IN {m \in [k : 0 .. Len(rest), q1 : 0 .. 1, n : 1 .. Len(rest), q2 : 0 .. 1] :
                /\ m.k + m.q1 + m.n + m.q2 <= Len(rest)
                /\ AllOf(rest, 1, m.k, "space")
                /\ AllOf(rest, m.k + 1, m.k + m.q1, "quote")
                /\ AllOf(rest, m.k + m.q1 + 1, m.k + m.q1 + m.n, "name")
                /\ AllOf(rest, m.k + m.q1 + m.n + 1, m.k + m.q1 + m.n + m.q2, "quote")
                /\ AllOf(rest, m.k + m.q1 + m.n + m.q2 + 1, Len(rest), "space")}

renameMatches(str) ==
    IF Len(str) < Len(SlashRename) \/ SubSeq(str, 1, Len(SlashRename)) # SlashRename
    THEN {}
    ELSE LET rest == SubSeq(str, Len(SlashRename) + 1, Len(str))
         IN {m \in [k : 1 .. Len(rest), q1 : 0 .. 1, n : 1 .. Len(rest), q2 : 0 .. 1] :
                /\ m.k + m.q1 + m.n + m.q2 <= Len(rest)
                /\ AllOf(rest, 1, m.k, "space")
                /\ AllOf(rest, m.k + 1, m.k + m.q1, "quote")
                /\ AllOf(rest, m.k + m.q1 + 1, m.k + m.q1 + m.n, "name")
                /\ AllOf(rest, m.k + m.q1 + m.n + 1, m.k + m.q1 + m.n + m.q2, "quote")
                /\ AllOf(rest, m.k + m.q1 + m.n + m.q2 + 1, Len(rest), "space")}

\* the order in which the greedy quantifiers try the matches: longest \s+
\* first, then ["']? taken, then the longest group, then ["']? taken
TriedBefore(m, o) ==
    \/ m.k > o.k
    \/ m.k = o.k /\ m.q1 > o.q1
    \/ m.k = o.k /\ m.q1 = o.q1 /\ m.n > o.n
    \/ m.k = o.k /\ m.q1 = o.q1 /\ m.n = o.n /\ m.q2 > o.q2

\* inputBuffer.match(RENAME_REGEX)[1], for a buffer that matches
matchGroup(str) ==
    LET matches == renameMatches(str)
        match == CHOOSE m \in matches : \A o \in matches \ {m} : TriedBefore(m, o)
    IN SubSeq(str, Len(SlashRename) + match.k + match.q1 + 1,
              Len(SlashRename) + match.k + match.q1 + match.n)

\* String.prototype.trim
RECURSIVE trim(_)
trim(str) ==
    IF str = <<>> THEN str
    ELSE IF IsSpace(Head(str)) THEN trim(Tail(str))
    ELSE IF IsSpace(str[Len(str)]) THEN trim(SubSeq(str, 1, Len(str) - 1))
    ELSE str

\* getRenameAction leaving the buffer as it is on Enter
getRenameAction_keepsBuffer(buffer, data, handled) ==
    LET none == [shouldRename |-> FALSE, newName |-> <<>>,
                 nextBuffer |-> buffer, nextHandled |-> handled]
    IN IF data = <<Code.cr>> \/ data = <<Code.lf>>
       THEN LET matched == ~handled /\ renameMatches(buffer) # {}
                trimmed == IF matched THEN trim(matchGroup(buffer)) ELSE <<>>
            IN IF matched /\ trimmed # <<>>
               THEN [shouldRename |-> TRUE, newName |-> trimmed,
                     nextBuffer |-> buffer, nextHandled |-> TRUE]
               ELSE [none EXCEPT !.nextHandled = FALSE]
       ELSE IF data = <<Code.del>>
       THEN [none EXCEPT !.nextBuffer = SubSeq(buffer, 1, Len(buffer) - 1),
                         !.nextHandled = FALSE]
       ELSE IF Len(data) = 1 /\ data[1] >= 32
       THEN [none EXCEPT !.nextBuffer = buffer \o data, !.nextHandled = FALSE]
       ELSE IF Len(data) > 0 /\ data[1] < 32
       THEN [none EXCEPT !.nextBuffer = <<>>, !.nextHandled = FALSE]
       ELSE none

\* getRenameAction(inputBuffer, data, renameHandled)
getRenameAction(buffer, data, handled) ==
    LET none == [shouldRename |-> FALSE, newName |-> <<>>,
                 nextBuffer |-> buffer, nextHandled |-> handled]
    IN IF data = <<Code.cr>> \/ data = <<Code.lf>>
       THEN LET matched == ~handled /\ renameMatches(buffer) # {}
                trimmed == IF matched THEN trim(matchGroup(buffer)) ELSE <<>>
            IN IF matched /\ trimmed # <<>>
               THEN [shouldRename |-> TRUE, newName |-> trimmed,
                     nextBuffer |-> <<>>, nextHandled |-> TRUE]
               ELSE [none EXCEPT !.nextBuffer = <<>>, !.nextHandled = FALSE]
       ELSE IF data = <<Code.del>>
       THEN [none EXCEPT !.nextBuffer = SubSeq(buffer, 1, Len(buffer) - 1),
                         !.nextHandled = FALSE]
       ELSE IF Len(data) = 1 /\ data[1] >= 32
       THEN [none EXCEPT !.nextBuffer = buffer \o data, !.nextHandled = FALSE]
       ELSE IF Len(data) > 0 /\ data[1] < 32
       THEN [none EXCEPT !.nextBuffer = <<>>, !.nextHandled = FALSE]
       ELSE none

\* no call of getRenameAction yet
NoCall == [data |-> <<>>]

\* ------------------------------------------------------------ state machine
\* new WindowManager(): the fields the constructor sets
constructed ==
    [windows |-> <<>>, windowIdCounter |-> 0, activeWindowId |-> 0,
     dragState |-> NoGesture, resizeState |-> NoGesture,
     overviewWindowId |-> 0, terminalToWindow |-> <<>>, terminals |-> <<>>,
     closing |-> <<>>, idCounter |-> 0, events |-> <<>>]

\* The renderer after new App(): the constructor builds the window manager
\* and opens the overview window.
StartsWith(s, buffer, handled) ==
    /\ windows = s.windows
    /\ windowIdCounter = s.windowIdCounter
    /\ activeWindowId = s.activeWindowId
    /\ dragState = s.dragState
    /\ resizeState = s.resizeState
    /\ overviewWindowId = s.overviewWindowId
    /\ terminalToWindow = s.terminalToWindow
    /\ terminals = s.terminals
    /\ closing = s.closing
    /\ idCounter = s.idCounter
    /\ inputBuffer = buffer
    /\ renameHandled = handled
    /\ renameCall = NoCall
    /\ last = [op |-> "init", id |-> 0, pre |-> <<>>, active |-> 0, events |-> <<>>]
    /\ nEvents = 0

\* the onData handler of a terminal starts with an empty buffer and the flag off
StartsAs(s) == StartsWith(s, <<>>, FALSE)

Init == StartsAs(openOverviewWindow(constructed))

\* the state after a handler: the fields of s, and the history of the call
Becomes(s, op, id) ==
    /\ nEvents < MaxEvents
    /\ windows' = s.windows
    /\ windowIdCounter' = s.windowIdCounter
    /\ activeWindowId' = s.activeWindowId
    /\ dragState' = s.dragState
    /\ resizeState' = s.resizeState
    /\ overviewWindowId' = s.overviewWindowId
    /\ terminalToWindow' = s.terminalToWindow
    /\ terminals' = s.terminals
    /\ closing' = s.closing
    /\ idCounter' = s.idCounter
    /\ UNCHANGED <<inputBuffer, renameHandled, renameCall>>
    /\ last' = [op |-> op, id |-> id, pre |-> windows, active |-> activeWindowId,
                events |-> s.events]
    /\ nEvents' = nEvents + 1

\* ids an event can name: every id handed out so far, and one never handed out
EventIds == 1 .. (windowIdCounter + 1)

Deltas == (-MaxDelta) .. MaxDelta

\* getOverviewWindow() of App.openOverviewWindow: is there an overview window
hasOverviewWindow == \E id \in DOMAIN windows : windows[id].type = "overview"

\* createWindow as the application calls it: App.openOverviewWindow creates
\* the overview window when there is none, App.openTerminalWindow a terminal window
CreateWindow ==
    \E type \in WindowTypes :
        /\ windowIdCounter < MaxWindows
        /\ type = "overview" => ~hasOverviewWindow
        /\ Becomes(IF type = "overview" THEN openOverviewWindow(wm) ELSE handleLaunch(wm),
                   "createWindow", windowIdCounter + 1)

CloseWindow == \E id \in EventIds : Becomes(closeWindow(wm, id), "closeWindow", id)

MinimizeWindow == \E id \in EventIds : Becomes(minimizeWindow(wm, id), "minimizeWindow", id)

RestoreWindow == \E id \in EventIds : Becomes(restoreWindow(wm, id), "restoreWindow", id)

BringToFront == \E id \in EventIds : Becomes(bringToFront(wm, id), "bringToFront", id)

StartDrag ==
    \E id \in EventIds, onControls \in BOOLEAN :
        Becomes(startDrag(wm, id, onControls),
                IF onControls THEN "startDragOnControls" ELSE "startDrag", id)

StartResize ==
    \E id \in EventIds, direction \in ResizeDirections :
        Becomes(startResize(wm, id, direction), "startResize", id)

HandleMouseMove ==
    \E gridDeltaX \in Deltas, gridDeltaY \in Deltas :
        Becomes(handleMouseMove(wm, gridDeltaX, gridDeltaY),
                IF dragState # NoGesture THEN "handleDrag"
                ELSE IF resizeState # NoGesture THEN "handleResize" ELSE "idleMove",
                IF dragState # NoGesture THEN dragState.windowId ELSE resizeState.windowId)

HandleMouseUp ==
    Becomes(handleMouseUp(wm), "handleMouseUp",
            IF dragState # NoGesture THEN dragState.windowId ELSE resizeState.windowId)

UpdateWindowTitle ==
    \E id \in EventIds, title \in NewNames :
        Becomes(updateWindowTitle(wm, id, title), "updateWindowTitle", id)

Next ==
    \/ CreateWindow
    \/ CloseWindow
    \/ MinimizeWindow
    \/ RestoreWindow
    \/ BringToFront
    \/ StartDrag
    \/ StartResize
    \/ HandleMouseMove
    \/ HandleMouseUp
    \/ UpdateWindowTitle

Spec == Init /\ [][Next]_vars

\* ------------------------------------------- the application's own handlers
\* the terminals listed in the sidebar
SidebarIds == {terminals[i].id : i \in DOMAIN terminals}

\* click on the overview toggle button
ToggleOverviewWindow ==
    /\ hasOverviewWindow \/ windowIdCounter < MaxWindows
    /\ Becomes(toggleOverviewWindow(wm), "toggleOverviewWindow", getOverviewWindow(wm))

\* click on a sidebar entry
SelectTerminal ==
    \E id \in SidebarIds :
        /\ selectTerminal(wm, id).windowIdCounter <= MaxWindows
        /\ Becomes(selectTerminal(wm, id), "selectTerminal", id)

\* click on the close button of a sidebar entry
CloseTerminal ==
    \E id \in SidebarIds : Becomes(closeTerminal(wm, id), "closeTerminal", id)

\* terminalAPI.close answers one of the waiting calls
CloseTerminalResume ==
    \E i \in DOMAIN closing :
        /\ closeTerminalResume(wm, i).windowIdCounter <= MaxWindows
        /\ Becomes(closeTerminalResume(wm, i), "closeTerminalResume", closing[i].id)

\* a rename from the sidebar or from the terminal
RenameTerminal ==
    \E id \in SidebarIds, newName \in NewNames :
        Becomes(renameTerminal(wm, id, newName), "renameTerminal", id)

NextApp ==
    \/ CreateWindow
    \/ CloseWindow
    \/ MinimizeWindow
    \/ ToggleOverviewWindow
    \/ SelectTerminal
    \/ CloseTerminal
    \/ CloseTerminalResume
    \/ RenameTerminal

SpecApp == Init /\ [][NextApp]_vars

\* ------------------------------------------- the layout functions on their own
\* forceFit, findConflicts and rectsOverlap as functions of their arguments:
\* a registry of two windows, window 1 in any rectangle of the grid as the
\* priority window, window 2 as the target in a corner of the grid.
GridRects ==
    {r \in [x : 0 .. (gridSize - minWindowSize), y : 0 .. (gridSize - minWindowSize),
            w : minWindowSize .. gridSize, h : minWindowSize .. gridSize] :
        r.x + r.w <= gridSize /\ r.y + r.h <= gridSize}

\* widths and heights of the target window
TargetSizes == {2, 3, 5}

TargetRects ==
    {r \in GridRects :
        /\ r.w \in TargetSizes /\ r.h \in TargetSizes
        /\ r.x \in {0, gridSize - r.w} /\ r.y \in {0, gridSize - r.h}}

TwoWindows(priorityRect, targetRect) ==
    [id \in {1, 2} |->
        LET r == IF id = 1 THEN priorityRect ELSE targetRect
        IN [id |-> id, type |-> "terminal", title |-> "TERMINAL",
            gridX |-> r.x, gridY |-> r.y,
            gridW |-> r.w, gridH |-> r.h, terminalId |-> 0, minimized |-> FALSE,
            zIndex |-> baseZIndex + id, active |-> id = 2]]

InitFit ==
    \E priorityRect \in GridRects, targetRect \in TargetRects :
        StartsAs([constructed EXCEPT
                     !.windows = TwoWindows(priorityRect, targetRect),
                     !.windowIdCounter = 2,
                     !.activeWindowId = 2])

\* this.forceFit(2, rect of window 1)
ApplyForceFit ==
    /\ last.op = "init"
    /\ Becomes([wm EXCEPT !.windows = forceFit(windows, 2, windowRect(windows[1])),
                           !.events = forceFitNotifies(windows, 2, windowRect(windows[1]))],
               "forceFit", 2)

\* this.resolveOverlaps(1)
ApplyResolveOverlaps ==
    /\ last.op = "init"
    /\ Becomes(resolveOverlapsIn(wm, 1), "resolveOverlaps", 1)

NextFit == ApplyForceFit \/ ApplyResolveOverlaps

SpecFit == InitFit /\ [][NextFit]_vars

\* ------------------------------------------- the rename detection on its own
\* getRenameAction as the onData handler of a terminal applies it: the
\* handler keeps inputBuffer and renameHandled between two keystrokes.
\* what terminal.onData delivers: Enter (CR or LF), backspace, printable
\* characters, control characters, an escape sequence, a pasted text, nothing
Keystrokes ==
    {<<Code.cr>>, <<Code.lf>>, <<Code.del>>, <<Code.space>>, <<Code.doubleQuote>>,
     <<Code.singleQuote>>, <<Code.a>>, <<Code.etx>>, <<Code.esc, Code.a>>,
     <<Code.a, Code.a>>, <<>>}

\* the number of characters of str after the part it shares with "/rename"
RECURSIVE Typed(_, _)
Typed(str, i) ==
    IF i <= Len(str) /\ i <= Len(SlashRename) /\ str[i] = SlashRename[i]
    THEN Typed(str, i + 1)
    ELSE Len(str) - (i - 1)

\* the arguments of getRenameAction are drawn from the buffers "", "/rename"
\* and "/rename a" and both values of the flag
InitRename ==
    \E buffer \in {<<>>, SlashRename, SlashRename \o <<Code.space, Code.a>>},
       handled \in BOOLEAN :
        StartsWith(constructed, buffer, handled)

\* terminal.onData(data)
OnData ==
    \E data \in Keystrokes :
        LET result == getRenameAction(inputBuffer, data, renameHandled)
        IN /\ Typed(result.nextBuffer, 1) <= MaxTyped
           /\ inputBuffer' = result.nextBuffer
           /\ renameHandled' = result.nextHandled
           /\ renameCall' = [data |-> data, inputBuffer |-> inputBuffer,
                             renameHandled |-> renameHandled, result |-> result,
                             followsRename |-> /\ renameCall # NoCall
                                               /\ renameCall.result.shouldRename]
           /\ UNCHANGED <<windows, windowIdCounter, activeWindowId, dragState,
                          resizeState, overviewWindowId, terminalToWindow, terminals,
                          closing, idCounter, last, nEvents>>

NextRename == OnData

SpecRename == InitRename /\ [][NextRename]_vars

\* ------------------------------------------------------- shared vocabulary
\* ids of the windows that occupy grid space
Visible(wins) == {id \in DOMAIN wins : ~wins[id].minimized}

NoOverlapIn(wins) ==
    \A a \in Visible(wins), b \in Visible(wins) :
        a # b => ~rectsOverlap(windowRect(wins[a]), windowRect(wins[b]))

Quiescent == dragState = NoGesture /\ resizeState = NoGesture

\* the last handler called resolveOverlaps(last.id)
CalledResolve ==
    \/ last.op = "createWindow"
    \/ last.op = "restoreWindow" /\ last.id \in DOMAIN last.pre
    \/ /\ last.op \in {"handleDrag", "handleResize"}
       /\ last.id \in DOMAIN last.pre
       /\ windowRect(windows[last.id]) # windowRect(last.pre[last.id])

\* the registry at the moment of that call: the priority window as the handler
\* set it, every other window as it was before the handler
AtCall ==
    [k \in DOMAIN windows |->
        IF k = last.id THEN [windows[k] EXCEPT !.zIndex = 0, !.active = FALSE]
        ELSE last.pre[k]]

PriorityRect == windowRect(windows[last.id])

\* windows other than the priority whose rectangle the call changed
Pushed ==
    {b \in DOMAIN windows \ {last.id} : windowRect(windows[b]) # windowRect(AtCall[b])}

\* ------------------------------------------------------------------ claims
\* C1: at every quiescent state (no drag and no resize in progress) no two
\* non-minimized windows of the registry have overlapping rectangles.
C1_NoOverlap == Quiescent => NoOverlapIn(windows)

\* C2: every window, minimized or not, lies inside the 8x8 grid and is at
\* least 2 cells wide and 2 cells high.
C2_Bounds ==
    \A id \in DOMAIN windows :
        LET w == windows[id]
        IN /\ 0 <= w.gridX /\ 0 <= w.gridY
           /\ w.gridX + w.gridW <= 8 /\ w.gridY + w.gridH <= 8
           /\ w.gridW >= 2 /\ w.gridH >= 2

\* C2 witness: an overlap resolution has shrunk a window against the grid edge.
C2_Witness ==
    /\ CalledResolve
    /\ \E b \in Pushed :
           /\ windows[b].gridW < AtCall[b].gridW
           /\ windows[b].gridX + windows[b].gridW = gridSize

\* C3: when resolveOverlaps(p) has moved or shrunk a window B, B overlaps no
\* third non-minimized window C that was clear of p (C is pushed in turn).
C3_Cascade ==
    CalledResolve =>
        \A b \in Pushed \cap Visible(windows) :
            \A c \in Visible(windows) \ {last.id, b} :
                ~rectsOverlap(PriorityRect, windowRect(AtCall[c]))
                    => ~rectsOverlap(windowRect(windows[b]), windowRect(windows[c]))

\* C4: resolveOverlaps(p) leaves p's x, y, w, h and minimized flag as they
\* were when it was called, in every registry and for every p; after a
\* restore the window has the rectangle it was minimized with.
C4_PriorityUnchanged ==
    /\ \A id \in DOMAIN windows : resolveOverlaps(windows, id)[id] = windows[id]
    /\ (last.op = "restoreWindow" /\ last.id \in DOMAIN last.pre) =>
           /\ windowRect(windows[last.id]) = windowRect(last.pre[last.id])
           /\ ~windows[last.id].minimized

\* C4 witness: a restore whose overlap resolution moved another window.
C4_Witness ==
    /\ last.op = "restoreWindow" /\ last.id \in DOMAIN last.pre
    /\ last.pre[last.id].minimized
    /\ Pushed # {}

\* C5: after restoreWindow(A) on a minimized window A, in a registry without
\* overlap before the restore, no two non-minimized windows overlap.
C5_RestoreNoOverlap ==
    (/\ last.op = "restoreWindow" /\ last.id \in DOMAIN last.pre
     /\ last.pre[last.id].minimized
     /\ NoOverlapIn(last.pre))
        => NoOverlapIn(windows)

\* C6: a minimized window takes part in no conflict check: findConflicts never
\* returns it, findFreeSpot gives the origin it would give without it, and a
\* create, drag, resize or restore of another window leaves its rectangle alone.
C6_MinimizedExcluded ==
    /\ \A id \in DOMAIN windows, ex \in {0} \cup DOMAIN windows :
           \A conflicts \in {findConflicts(windows, windowRect(windows[id]), ex)} :
               \A i \in DOMAIN conflicts : ~windows[conflicts[i]].minimized
    /\ Visible(windows) # DOMAIN windows =>
           findFreeSpot(windows, 4, 4)
               = findFreeSpot([id \in Visible(windows) |-> windows[id]], 4, 4)
    /\ CalledResolve =>
           \A b \in DOMAIN windows \ {last.id} :
               AtCall[b].minimized => windowRect(windows[b]) = windowRect(AtCall[b])

\* C6 witness: a window was created, dragged, resized or restored onto the
\* rectangle of a minimized window.
C6_Witness ==
    /\ CalledResolve
    /\ \E b \in DOMAIN windows \ {last.id} :
           /\ AtCall[b].minimized
           /\ rectsOverlap(PriorityRect, windowRect(windows[b]))

\* C7: a second resolveOverlaps(id) right after a first one changes no
\* rectangle, for every registry and every id, residual overlap included.
C7_Idempotent ==
    /\ CalledResolve => resolveOverlaps(windows, last.id) = windows
    /\ \A id \in DOMAIN windows :
           LET once == resolveOverlaps(windows, id)
           IN resolveOverlaps(once, id) = once

\* C7 witness: the first call left a window overlapping the priority window.
C7_Witness ==
    /\ CalledResolve
    /\ findConflicts(windows, PriorityRect, last.id) # <<>>

\* a w-by-h rectangle at (x, y) overlaps no non-minimized window
FreeAt(wins, x, y, w, h) ==
    \A id \in Visible(wins) : ~rectsOverlap(Rect(x, y, w, h), windowRect(wins[id]))

HasFreeOrigin(wins, w, h) ==
    \E x \in 0 .. (gridSize - w), y \in 0 .. (gridSize - h) : FreeAt(wins, x, y, w, h)

\* r is the first free origin in row-major order, or (0,0) when there is none
FirstFree(wins, w, h, r) ==
    /\ r.x \in 0 .. (gridSize - w) /\ r.y \in 0 .. (gridSize - h)
    /\ IF FreeAt(wins, r.x, r.y, w, h)
       THEN \A y \in 0 .. r.y, x \in 0 .. (gridSize - w) :
                (y < r.y \/ x < r.x) => ~FreeAt(wins, x, y, w, h)
       ELSE r = [x |-> 0, y |-> 0] /\ ~HasFreeOrigin(wins, w, h)

ProbeSizes == {<<4, 4>>, <<3, 5>>}

\* a window created without a position (a terminal window)
CreatedAuto == last.op = "createWindow" /\ windows[last.id].type = "terminal"

\* C8: findFreeSpot(w, h) is the first origin in row-major order at which a
\* w-by-h rectangle overlaps no non-minimized window: (0,0) on an empty grid,
\* (4,0) for 4x4 when one 4x4 window sits at (0,0).
C8_FirstFit ==
    /\ \A sz \in ProbeSizes :
           \A r \in {findFreeSpot(windows, sz[1], sz[2])} :
               FirstFree(windows, sz[1], sz[2], r)
    /\ CreatedAuto =>
           FirstFree(last.pre, 4, 4,
                     [x |-> windows[last.id].gridX, y |-> windows[last.id].gridY])
    /\ DOMAIN windows = {} => findFreeSpot(windows, 4, 4) = [x |-> 0, y |-> 0]
    /\ (\E id \in DOMAIN windows :
            /\ DOMAIN windows = {id}
            /\ ~windows[id].minimized
            /\ windowRect(windows[id]) = Rect(0, 0, 4, 4))
           => findFreeSpot(windows, 4, 4) = [x |-> 4, y |-> 0]

\* C8 witness: a second 4x4 window was placed at (4,0) beside one at (0,0).
C8_Witness ==
    /\ CreatedAuto
    /\ \E id \in DOMAIN last.pre :
           /\ DOMAIN last.pre = {id}
           /\ ~last.pre[id].minimized
           /\ windowRect(last.pre[id]) = Rect(0, 0, 4, 4)
    /\ windowRect(windows[last.id]) = Rect(4, 0, 4, 4)

\* C9: when no origin is free for the requested size, the new window is put
\* at (0,0) and no non-minimized window overlaps it once createWindow is done.
C9_NoFreeSpot ==
    (CreatedAuto /\ ~HasFreeOrigin(last.pre, 4, 4)) =>
        /\ findFreeSpot(last.pre, 4, 4) = [x |-> 0, y |-> 0]
        /\ windowRect(windows[last.id]) = Rect(0, 0, 4, 4)
        /\ \A b \in Visible(windows) \ {last.id} :
               ~rectsOverlap(PriorityRect, windowRect(windows[b]))

\* C9 witness: such a create pushed a window out of the corner.
C9_Witness ==
    /\ CreatedAuto /\ ~HasFreeOrigin(last.pre, 4, 4)
    /\ \E b \in Pushed : rectsOverlap(PriorityRect, windowRect(AtCall[b]))

\* the registry of the push-right scenario: A = {0,0,4,4}, B = {2,0,4,4}
PushRightScenario ==
    [id \in {1, 2} |->
        [id |-> id, type |-> "terminal", title |-> "TERMINAL",
         gridX |-> IF id = 1 THEN 0 ELSE 2, gridY |-> 0,
         gridW |-> 4, gridH |-> 4, terminalId |-> 0, minimized |-> FALSE, zIndex |-> 10 + id,
         active |-> id = 2]]

\* pushing b right needs no shrink and no other direction is cheaper
RightIsBest(wr, priorityRect) ==
    LET right == pushRight(wr, priorityRect)
        others == pushLeft(wr, priorityRect) \o pushDown(wr, priorityRect)
                  \o pushUp(wr, priorityRect)
    IN /\ priorityRect.x + priorityRect.w + wr.w <= gridSize
       /\ right # <<>>
       /\ \A i \in DOMAIN others : right[1].cost <= others[i].cost

\* C10: a conflicting window B that fits to the right of the priority window,
\* with push-right the cheapest move, gets x = priority.x + priority.w and
\* keeps y, w, h; for A = {0,0,4,4} and B = {2,0,4,4}, B becomes {4,0,4,4}.
C10_PushRight ==
    /\ CalledResolve =>
           \A b \in Visible(AtCall) \ {last.id} :
               (/\ rectsOverlap(PriorityRect, windowRect(AtCall[b]))
                /\ RightIsBest(windowRect(AtCall[b]), PriorityRect))
                   => windowRect(windows[b])
                        = Rect(PriorityRect.x + PriorityRect.w, AtCall[b].gridY,
                               AtCall[b].gridW, AtCall[b].gridH)
    /\ windowRect(resolveOverlaps(PushRightScenario, 1)[2]) = Rect(4, 0, 4, 4)

\* C10 witness: a resolution pushed a conflicting window to the right edge of
\* the priority window without shrinking it.
C10_Witness ==
    /\ CalledResolve
    /\ \E b \in Visible(AtCall) \ {last.id} :
           /\ rectsOverlap(PriorityRect, windowRect(AtCall[b]))
           /\ RightIsBest(windowRect(AtCall[b]), PriorityRect)
           /\ windows[b].gridX > AtCall[b].gridX
           /\ windows[b].gridX = PriorityRect.x + PriorityRect.w

\* the non-minimized windows that overlapped the priority rectangle at the call
Conflicting ==
    {b \in Visible(AtCall) \ {last.id} :
        rectsOverlap(PriorityRect, windowRect(AtCall[b]))}

\* the rectangle a move gives its window
MoveRect(m) == Rect(m.x, m.y, m.w, m.h)

\* C11 as stated: a conflicting window whose push right overflows the grid
\* gets the width 8 - newX (newX = right edge of the priority window), at
\* least 2; when 8 - newX is below 2 the push is rejected and forceFit is
\* invoked instead (pushWindowAway finds no candidate to apply).
C11_ForcedShrink ==
    CalledResolve =>
        \A b \in Conflicting :
            LET wr == windowRect(AtCall[b])
                newX == PriorityRect.x + PriorityRect.w
                right == pushRight(wr, PriorityRect)
            IN newX + wr.w > 8 =>
                 IF 8 - newX >= 2
                 THEN right # <<>> /\ right[1].w = 8 - newX
                 ELSE right = <<>> /\ candidateMoves(wr, PriorityRect) = <<>>

\* C11 amended: the push-right candidate of such a window has x = newX and
\* the width 8 - newX, at least 2, and is rejected when 8 - newX is below 2;
\* after a rejection the cheapest of the remaining candidates is applied, and
\* forceFit decides only when push left, down and up are rejected as well.
C11_ForcedShrinkRight ==
    CalledResolve =>
        \A b \in Conflicting :
            LET wr == windowRect(AtCall[b])
                newX == PriorityRect.x + PriorityRect.w
                right == pushRight(wr, PriorityRect)
                others == pushLeft(wr, PriorityRect) \o pushDown(wr, PriorityRect)
                          \o pushUp(wr, PriorityRect)
                cheaper == {i \in DOMAIN others :
                               right = <<>> \/ others[i].cost < right[1].cost}
            IN newX + wr.w > 8 =>
                 /\ IF 8 - newX >= 2
                    THEN /\ right # <<>>
                         /\ MoveRect(right[1]) = Rect(newX, wr.y, 8 - newX, wr.h)
                         /\ right[1].w >= 2
                    ELSE right = <<>>
                 /\ (right # <<>> /\ cheaper = {})
                        => windowRect(windows[b]) = Rect(newX, wr.y, 8 - newX, wr.h)
                 /\ (right = <<>> /\ others # <<>>)
                        => \E i \in DOMAIN others :
                               /\ \A j \in DOMAIN others : others[i].cost <= others[j].cost
                               /\ windowRect(windows[b]) = MoveRect(others[i])
                 /\ (right = <<>> /\ others = <<>>)
                        => windowRect(windows[b])
                             = windowRect(forceFit(AtCall, b, PriorityRect)[b])

\* C11 witness: a resolution pushed a conflicting window right and shrank it
\* to the 8 - newX columns left of the grid edge.
C11_Witness ==
    /\ CalledResolve
    /\ \E b \in Conflicting :
           LET wr == windowRect(AtCall[b])
               newX == PriorityRect.x + PriorityRect.w
           IN /\ newX + wr.w > 8
              /\ windowRect(windows[b]) = Rect(newX, wr.y, 8 - newX, wr.h)

\* position of a direction in the fixed order right, left, down, up
DirRank(dir) ==
    CASE dir = "right" -> 1 [] dir = "left" -> 2 [] dir = "down" -> 3 [] dir = "up" -> 4

\* C12: pushWindowAway applies the valid candidate of minimum cost among push
\* right, left, down, up; among candidates of equal minimum cost it applies
\* the earliest in the fixed order right, left, down, up.
C12_MinCost ==
    CalledResolve =>
        \A b \in Conflicting :
            LET moves == candidateMoves(windowRect(AtCall[b]), PriorityRect)
            IN /\ \A i \in DOMAIN moves, j \in DOMAIN moves :
                      i < j => DirRank(moves[i].dir) < DirRank(moves[j].dir)
               /\ moves # <<>> =>
                      \E i \in DOMAIN moves :
                          /\ \A j \in DOMAIN moves :
                                 /\ moves[i].cost <= moves[j].cost
                                 /\ j < i => moves[i].cost < moves[j].cost
                          /\ windowRect(windows[b]) = MoveRect(moves[i])

\* C12 witness: two candidates tied for the minimum cost, and the window got
\* the rectangle of the earlier one, which differs from the later one's.
C12_Witness ==
    /\ CalledResolve
    /\ \E b \in Conflicting :
           LET moves == candidateMoves(windowRect(AtCall[b]), PriorityRect)
           IN \E i \in DOMAIN moves, j \in DOMAIN moves :
                  /\ i < j
                  /\ moves[i].cost = moves[j].cost
                  /\ \A k \in DOMAIN moves : moves[i].cost <= moves[k].cost
                  /\ MoveRect(moves[i]) # MoveRect(moves[j])
                  /\ windowRect(windows[b]) = MoveRect(moves[i])

\* the raw overlap amount of a push direction: how far the window reaches
\* past the edge of the priority rectangle it is pushed away from
RawOverlap(dir, wr, priorityRect) ==
    CASE dir = "right" -> priorityRect.x + priorityRect.w - wr.x
      [] dir = "left" -> wr.x + wr.w - priorityRect.x
      [] dir = "down" -> priorityRect.y + priorityRect.h - wr.y
      [] dir = "up" -> wr.y + wr.h - priorityRect.y

\* C13: in each of the four push directions a candidate that also shrinks the
\* target costs strictly more than the raw overlap amount of its direction,
\* and a candidate that only moves the target costs exactly that amount.
C13_ShrinkCostsMore ==
    CalledResolve =>
        \A b \in Conflicting :
            LET wr == windowRect(AtCall[b])
                moves == candidateMoves(wr, PriorityRect)
            IN \A i \in DOMAIN moves :
                   IF moves[i].w < wr.w \/ moves[i].h < wr.h
                   THEN moves[i].cost > RawOverlap(moves[i].dir, wr, PriorityRect)
                   ELSE moves[i].cost = RawOverlap(moves[i].dir, wr, PriorityRect)

\* the regions around a priority rectangle p, each with its origin and its
\* extent: the columns right of p, the columns left of p, the rows below p,
\* the rows above p
RegionsAround(p) ==
    << [x |-> p.x + p.w, y |-> 0, w |-> 8 - (p.x + p.w), h |-> 8],
       [x |-> 0, y |-> 0, w |-> p.x, h |-> 8],
       [x |-> 0, y |-> p.y + p.h, w |-> 8, h |-> 8 - (p.y + p.h)],
       [x |-> 0, y |-> 0, w |-> 8, h |-> p.y] >>

Qualifies(region) == region.w >= 2 /\ region.h >= 2

\* C14: forceFit tries the regions right of, left of, below and above the
\* priority rectangle in that order and puts the target at the origin of the
\* first region at least 2 wide and 2 high, with its width and height clamped
\* down to the region's; the placed target does not overlap the priority
\* rectangle; when no region qualifies the target's rectangle is unchanged.
C14_ForceFit ==
    last.op = "forceFit" =>
        LET p == windowRect(last.pre[1])
            before == windowRect(last.pre[2])
            after == windowRect(windows[2])
            regions == RegionsAround(p)
            qualifying == {i \in DOMAIN regions : Qualifies(regions[i])}
        IN /\ windows[1] = last.pre[1]
           /\ qualifying = {} => windows[2] = last.pre[2]
           /\ \A i \in qualifying :
                  (\A j \in qualifying : i <= j) =>
                      /\ after = Rect(regions[i].x, regions[i].y,
                                      Min2(before.w, regions[i].w),
                                      Min2(before.h, regions[i].h))
                      /\ ~rectsOverlap(after, p)

\* C14 witness: the regions right and left of the priority rectangle were too
\* narrow and forceFit put the target below it, clamped to a smaller height.
C14_Witness ==
    /\ last.op = "forceFit"
    /\ LET regions == RegionsAround(windowRect(last.pre[1]))
       IN /\ ~Qualifies(regions[1]) /\ ~Qualifies(regions[2]) /\ Qualifies(regions[3])
          /\ windows[2].gridY = regions[3].y
          /\ windows[2].gridH = regions[3].h
          /\ windows[2].gridH < last.pre[2].gridH

\* the grid cells a rectangle covers (x and y ranges are half-open)
CellsOf(r) ==
    {c \in (0 .. (gridSize - 1)) \X (0 .. (gridSize - 1)) :
        /\ r.x <= c[1] /\ c[1] < r.x + r.w
        /\ r.y <= c[2] /\ c[2] < r.y + r.h}

\* one rectangle ends on the column or row where the other begins
Touching(a, b) ==
    \/ a.x + a.w = b.x \/ b.x + b.w = a.x
    \/ a.y + a.h = b.y \/ b.y + b.h = a.y

\* C15: rectsOverlap(a, b) is true exactly when the two rectangles share a
\* grid cell; rectangles that only touch along an edge or at a corner do not
\* overlap; and rectsOverlap(a, b) = rectsOverlap(b, a).
C15_RectsOverlap ==
    \A i \in DOMAIN windows, j \in DOMAIN windows :
        LET a == windowRect(windows[i])
            b == windowRect(windows[j])
        IN /\ rectsOverlap(a, b) <=> (\E c \in CellsOf(a) : c \in CellsOf(b))
           /\ Touching(a, b) => ~rectsOverlap(a, b)
           /\ rectsOverlap(a, b) = rectsOverlap(b, a)

\* C15 witness: resolveOverlaps(1) found no conflict and moved nothing for two
\* windows that share a stretch of a vertical edge.
C15_Witness ==
    /\ last.op = "resolveOverlaps"
    /\ windows = last.pre
    /\ LET a == windowRect(windows[1])
           b == windowRect(windows[2])
       IN /\ a.x + a.w = b.x
          /\ a.y < b.y + b.h /\ b.y < a.y + a.h

\* the last handler called bringToFront(last.id) on a window of the registry
BroughtToFront ==
    \/ last.op = "createWindow"
    \/ /\ last.op \in {"bringToFront", "restoreWindow", "startDrag"}
       /\ last.id \in DOMAIN last.pre

\* z-orders of the windows the handler found (an unset z-order reads as 10)
ZBefore == {zIndexOf(last.pre[k]) : k \in DOMAIN last.pre}

\* C16: each bringToFront(id) on an existing window sets its z-order to one
\* more than the maximum z-order of all windows, and to at least 11; of two
\* bringToFront calls in a row the later assigns the strictly larger value.
C16_ZOrderMonotone ==
    [][ /\ BroughtToFront' =>
              LET z == windows'[last'.id].zIndex
              IN /\ z >= 11
                 /\ \A v \in ZBefore' : z >= v + 1
                 /\ z = 11 \/ z - 1 \in ZBefore'
        /\ (BroughtToFront /\ BroughtToFront')
              => windows'[last'.id].zIndex > windows[last.id].zIndex ]_vars

\* C16 witness: bringToFront raised a window that was below another one to
\* one above the former top window.
C16_Witness ==
    /\ last.op = "bringToFront"
    /\ last.id \in DOMAIN last.pre
    /\ \E k \in DOMAIN last.pre \ {last.id} :
           /\ zIndexOf(last.pre[k]) > zIndexOf(last.pre[last.id])
           /\ windows[last.id].zIndex = zIndexOf(last.pre[k]) + 1

\* C17: once a window has been brought to front (createWindow does so), at
\* any time exactly one window of a non-empty registry has the active focus
\* state, also after the active window was closed or minimized.
C17_SingleFocus ==
    DOMAIN windows # {} =>
        Cardinality({id \in DOMAIN windows : windows[id].active}) = 1

\* C18: closeWindow(id) on a registered window delivers one close
\* notification carrying id and the window's full record while the record is
\* still in the registry, and after the call the record is gone, whatever the
\* listener did.
C18_CloseNotifies ==
    (last.op = "closeWindow" /\ last.id \in DOMAIN last.pre) =>
        /\ Len(last.events) = 1
        /\ last.events[1].type = "close"
        /\ last.events[1].windowId = last.id
        /\ last.events[1].windowData = last.pre[last.id]
        /\ last.id \in last.events[1].registered
        /\ last.id \notin DOMAIN windows

\* C18 witness: a terminal's window was closed, and the listener has dropped
\* the terminal's entry of terminalToWindow.
C18_Witness ==
    /\ last.op = "closeWindow"
    /\ last.id \in DOMAIN last.pre
    /\ last.pre[last.id].terminalId # 0
    /\ last.pre[last.id].terminalId \notin DOMAIN terminalToWindow
    /\ last.id \notin DOMAIN windows

\* C19: every record that leaves the registry leaves it in a closeWindow call
\* that first delivered the close notification for that window; nothing else
\* deletes records.
C19_RemovalOnlyByClose ==
    \A k \in DOMAIN last.pre \ DOMAIN windows :
        /\ last.op = "closeWindow"
        /\ \E i \in DOMAIN last.events :
               /\ last.events[i].type = "close"
               /\ last.events[i].windowId = k

\* the handlers that take a window id, or act on the window of the gesture
\* in progress
TakesWindowId ==
    {"closeWindow", "minimizeWindow", "restoreWindow", "bringToFront",
     "updateWindowTitle", "handleDrag", "handleResize", "handleMouseUp"}

\* C20: closeWindow, minimizeWindow, restoreWindow, bringToFront,
\* updateWindowTitle, resolveOverlaps and the pointer-move and pointer-up
\* steps of a drag or resize, for a window id that is not in the registry,
\* leave every window record (rect, minimized, z-order, title) and the active
\* window id as they were.
C20_UnknownIdNoOp ==
    /\ (last.op \in TakesWindowId /\ last.id # 0 /\ last.id \notin DOMAIN last.pre)
           => windows = last.pre /\ activeWindowId = last.active
    /\ \A id \in EventIds \ DOMAIN windows : resolveOverlaps(windows, id) = windows

\* C20 witness: a pointer-move step of a drag whose window was closed during
\* the gesture, with other windows in the registry.
C20_Witness ==
    /\ last.op = "handleDrag"
    /\ last.id \notin DOMAIN last.pre
    /\ DOMAIN windows # {}
    /\ windows = last.pre

\* C21: in every reachable state at most one of dragState and resizeState is
\* set, whatever the sequence of pointer-down, pointer-move and pointer-up
\* events.
C21_MutuallyExclusive == ~(dragState # NoGesture /\ resizeState # NoGesture)

\* C22: after handleMouseUp both dragState and resizeState are null, whatever
\* state preceded it, also when the gesture's window was closed during the
\* gesture.
C22_PointerUpIdle ==
    last.op = "handleMouseUp" => dragState = NoGesture /\ resizeState = NoGesture

\* C22 witness: a pointer-up that ends a gesture whose window is no longer in
\* the registry.
C22_Witness ==
    /\ last.op = "handleMouseUp"
    /\ last.id # 0
    /\ last.id \notin DOMAIN last.pre
    /\ Quiescent

\* C23: a pointer-move received while no drag and no resize is in progress
\* changes no window record, leaves the interaction state idle and emits no
\* notification.
C23_IdleMoveNoOp ==
    last.op = "idleMove" =>
        /\ windows = last.pre
        /\ activeWindowId = last.active
        /\ Quiescent
        /\ last.events = <<>>

\* C23 witness: an idle pointer-move over a registry with a visible active
\* window.
C23_Witness ==
    /\ last.op = "idleMove"
    /\ activeWindowId \in Visible(windows)
    /\ windows = last.pre

\* v brought into lo .. hi
Clamped(v, lo, hi) == IF v < lo THEN lo ELSE IF v > hi THEN hi ELSE v

\* the window of the drag in progress is in the registry
Dragging == dragState # NoGesture /\ dragState.windowId \in DOMAIN windows

\* C24: during a drag, a pointer-move with grid delta (dx, dy) puts the
\* dragged window at (start position + delta) clamped to [0, 8-w] x [0, 8-h]
\* for the window's current w and h, leaves its w and h as they were, and
\* changes no window's rectangle when the clamped position is the current one.
C24_DragStep ==
    /\ Dragging =>
           \A dx \in Deltas, dy \in Deltas :
               LET id == dragState.windowId
                   x == Clamped(dragState.startGridX + dx, 0, gridSize - windows[id].gridW)
                   y == Clamped(dragState.startGridY + dy, 0, gridSize - windows[id].gridH)
               IN \A t \in {handleMouseMove(wm, dx, dy)} :
                      /\ t.windows[id].gridX = x
                      /\ t.windows[id].gridY = y
                      /\ t.windows[id].gridW = windows[id].gridW
                      /\ t.windows[id].gridH = windows[id].gridH
                      /\ (x = windows[id].gridX /\ y = windows[id].gridY)
                             => t.windows = windows
    /\ (last.op = "handleDrag" /\ last.id \in DOMAIN last.pre) =>
           /\ windows[last.id].gridW = last.pre[last.id].gridW
           /\ windows[last.id].gridH = last.pre[last.id].gridH
           /\ (/\ windows[last.id].gridX = last.pre[last.id].gridX
               /\ windows[last.id].gridY = last.pre[last.id].gridY)
                  => windows = last.pre

\* C24 witness: a drag step moved a window smaller than the grid away from
\* its start position in both directions, and pushed another window.
C24_Witness ==
    /\ last.op = "handleDrag"
    /\ last.id \in DOMAIN last.pre
    /\ windows[last.id].gridX # dragState.startGridX
    /\ windows[last.id].gridY # dragState.startGridY
    /\ windows[last.id].gridW < gridSize
    /\ \E b \in DOMAIN last.pre \ {last.id} :
           windowRect(windows[b]) # windowRect(last.pre[b])

\* the rectangle r is what a resize step may leave of the window grabbed as
\* resizeState records: inside the grid, at least 2x2, the edges opposite the
\* grabbed ones where they were at resize start
KeepsOppositeEdges(r) ==
    /\ r.x >= 0 /\ r.y >= 0
    /\ r.x + r.w <= gridSize /\ r.y + r.h <= gridSize
    /\ r.w >= 2 /\ r.h >= 2
    /\ "w" \in resizeState.direction =>
           r.x + r.w = resizeState.startGridX + resizeState.startGridW
    /\ "n" \in resizeState.direction =>
           r.y + r.h = resizeState.startGridY + resizeState.startGridH
    /\ "e" \in resizeState.direction => r.x = resizeState.startGridX
    /\ "s" \in resizeState.direction => r.y = resizeState.startGridY

\* C25: a resize step with any of the eight handles and any pointer delta
\* leaves the resized window inside the grid with w >= 2 and h >= 2, and the
\* edge opposite each grabbed edge keeps the coordinate it had at resize
\* start (x+w resp. y+h for the w and n handles, x resp. y for e and s).
C25_ResizeStep ==
    (last.op = "handleResize" /\ last.id \in DOMAIN last.pre) =>
        KeepsOppositeEdges(windowRect(windows[last.id]))

\* C25 witness: a resize step by the west handle moved the west edge of the
\* window and shrank it.
C25_Witness ==
    /\ last.op = "handleResize"
    /\ last.id \in DOMAIN last.pre
    /\ "w" \in resizeState.direction
    /\ windows[last.id].gridX # resizeState.startGridX
    /\ windows[last.id].gridW < resizeState.startGridW

\* createWindow made window id of the registry now with the rectangle rect,
\* and every visible window of the registry before that overlapped rect has
\* another rectangle now
CreatedAsPriority(before, now, id, rect) ==
    /\ id \in DOMAIN now
    /\ id \notin DOMAIN before
    /\ windowRect(now[id]) = rect
    /\ \A b \in Visible(before) :
           rectsOverlap(rect, windowRect(before[b]))
               => windowRect(now[b]) # windowRect(before[b])

\* the default rectangle: 4x4 at findFreeSpot(4, 4)
DefaultRect(wins) ==
    LET spot == findFreeSpot(wins, 4, 4) IN Rect(spot.x, spot.y, 4, 4)

\* C26: createWindow makes the new window the priority of the overlap
\* resolution. With no position it is placed at findFreeSpot(w, h), 4x4 when
\* no size is given either; with a position it keeps exactly the given
\* rectangle; every visible window that overlapped it is pushed or shrunk,
\* the new window is not.
C26_CreatePriority ==
    /\ last.op = "createWindow" =>
           CreatedAsPriority(last.pre, windows, last.id,
                             IF windows[last.id].type = "overview"
                             THEN Rect(overviewOptions.gridX, overviewOptions.gridY,
                                       overviewOptions.gridW, overviewOptions.gridH)
                             ELSE DefaultRect(last.pre))
    /\ \A t \in {createWindow(wm, "terminal", noOptions)} :
           CreatedAsPriority(windows, t.windows, windowIdCounter + 1, DefaultRect(windows))

\* C26 witness: a window created without a position on a grid with no free
\* 4x4 spot took the origin, and a visible window that lay there was moved.
C26_Witness ==
    /\ last.op = "createWindow"
    /\ windows[last.id].type = "terminal"
    /\ windowRect(windows[last.id]) = Rect(0, 0, 4, 4)
    /\ \E b \in Visible(last.pre) :
           /\ rectsOverlap(Rect(0, 0, 4, 4), windowRect(last.pre[b]))
           /\ windowRect(windows[b]) # windowRect(last.pre[b])

\* C26 witness of the other case: the overview window created at its given
\* rectangle over a visible terminal window, which was moved.
C26_WitnessGiven ==
    /\ last.op = "createWindow"
    /\ windows[last.id].type = "overview"
    /\ \E b \in Visible(last.pre) :
           /\ rectsOverlap(windowRect(windows[last.id]), windowRect(last.pre[b]))
           /\ windowRect(windows[b]) # windowRect(last.pre[b])

\* C27: window ids are unique and strictly increasing in creation order over
\* any sequence of create and close operations: a created window gets an id
\* above every id handed out before, so no id of a closed window is reused,
\* and the id in a window's record stays the id it is registered under.
C27_IdsIncrease ==
    [][ /\ windowIdCounter' >= windowIdCounter
        /\ \A k \in DOMAIN windows : k <= windowIdCounter
        /\ \A k \in DOMAIN windows' : k <= windowIdCounter' /\ windows'[k].id = k
        /\ \A k \in DOMAIN windows' \ DOMAIN windows : k > windowIdCounter
        /\ last'.op = "createWindow" => DOMAIN windows' \ DOMAIN windows = {last'.id}
      ]_vars

\* C27 witness: a window was created after a window with a lower id had been
\* closed, next to a window that outlived the close.
C27_Witness ==
    /\ last.op = "createWindow"
    /\ last.id \in DOMAIN windows
    /\ \E k \in 1 .. (last.id - 1) : k \notin DOMAIN windows
    /\ \E k \in 1 .. (last.id - 1) : k \in DOMAIN windows

\* one pass of the loop of resolveOverlaps(priorityWindowId): the windows that
\* conflict at its start are pushed
OnePass(wins, priorityWindowId) ==
    LET priorityRect == windowRect(wins[priorityWindowId])
    IN pushConflicts(wins, findConflicts(wins, priorityRect, priorityWindowId),
                     priorityRect)

\* the registry after k passes; a pass that changes nothing is repeated
\* without effect
RECURSIVE AfterPasses(_, _, _)
AfterPasses(wins, priorityWindowId, k) ==
    IF k = 0 THEN wins
    ELSE LET next == OnePass(wins, priorityWindowId)
         IN IF next = wins THEN wins
            ELSE AfterPasses(next, priorityWindowId, k - 1)

\* visible windows other than the priority that overlap the priority in wins
ConflictsIn(wins, priorityWindowId) ==
    {b \in Visible(wins) \ {priorityWindowId} :
        rectsOverlap(windowRect(wins[priorityWindowId]), windowRect(wins[b]))}

\* the last handler called resolveOverlaps(last.id), from a handler of the
\* window manager or on its own
Resolved == CalledResolve \/ last.op = "resolveOverlaps"

\* C28: resolveOverlaps terminates: it makes at most 50 passes, every pass it
\* makes started with a conflict, it stops at the first pass that starts
\* without one, and when it has made 50 passes it returns the registry as
\* the 50th pass left it, residual overlap included.
C28_BoundedPasses ==
    Resolved =>
        \A n \in {resolveOverlapsPasses(AtCall, last.id)} :
            /\ n \in 0 .. 50
            /\ \A k \in 0 .. (n - 1) :
                   ConflictsIn(AfterPasses(AtCall, last.id, k), last.id) # {}
            /\ n < 50 => ConflictsIn(AfterPasses(AtCall, last.id, n), last.id) = {}
            /\ \A b \in DOMAIN windows :
                   windowRect(windows[b])
                       = windowRect(AfterPasses(AtCall, last.id, n)[b])

\* C28 witness: a resolution made all 50 passes and returned with a window
\* still overlapping the priority rectangle.
C28_Witness ==
    /\ Resolved
    /\ resolveOverlapsPasses(AtCall, last.id) = 50
    /\ ConflictsIn(windows, last.id) # {}

\* the last handler dispatched a content-resize notification for window id
\* that carries the rectangle the window has now
NotifiedResize(id) ==
    \E i \in DOMAIN last.events :
        /\ last.events[i].type = "resize"
        /\ last.events[i].windowId = id
        /\ windowRect(last.events[i].windowData) = windowRect(windows[id])

\* the last call was forceFit(last.id, ...) on its own and it changed the
\* rectangle of the window
ForceFitted ==
    /\ last.op = "forceFit"
    /\ windowRect(windows[last.id]) # windowRect(last.pre[last.id])

\* C29: a content-resize notification is emitted for every window whose
\* rectangle an overlap resolution changed (by a push or by forceFit), and
\* for the window of each gesture that a pointer-up ends while that window is
\* in the registry.
C29_ResizeNotified ==
    [][ /\ (Resolved => \A b \in Pushed : NotifiedResize(b))'
        /\ (ForceFitted => NotifiedResize(last.id))'
        /\ last'.op = "handleMouseUp" =>
               \A id \in {dragState.windowId, resizeState.windowId} :
                   id \in DOMAIN windows => NotifiedResize(id)'
      ]_vars

\* C29 witness: a resolution pushed a window and the notification for it was
\* dispatched.
C29_Witness ==
    /\ Resolved
    /\ Pushed # {}
    /\ \A b \in Pushed : NotifiedResize(b)

\* C29 witness of forceFit: called on its own it placed the window in a
\* region and dispatched the notification.
C29_WitnessForceFit == ForceFitted /\ NotifiedResize(last.id)

\* C29 witness of the pointer-up: it ended a gesture on a registered window
\* and dispatched the notification for it.
C29_WitnessPointerUp ==
    /\ last.op = "handleMouseUp"
    /\ last.id \in DOMAIN windows
    /\ NotifiedResize(last.id)

\* C30: closing a terminal's window with its [X] button removes the window
\* from the registry, calls terminalAPI.close with the terminal's id, and
\* removes the terminal from the sidebar (which the application does when
\* that call has answered).
C30_CloseButtonClosesTerminal ==
    (/\ last.op = "closeWindow"
     /\ last.id \in DOMAIN last.pre
     /\ last.pre[last.id].terminalId # 0)
        => /\ last.id \notin DOMAIN windows
           /\ \/ last.pre[last.id].terminalId \notin SidebarIds
              \/ \E i \in DOMAIN closing :
                     closing[i].id = last.pre[last.id].terminalId

\* C31: closing the overview window leaves the terminals of the sidebar as
\* they were, closes no terminal session (no terminalAPI.close call is made)
\* and leaves the terminals' windows mapped.
C31_OverviewCloseKeepsTerminals ==
    [][ (/\ last'.op = "closeWindow"
         /\ last'.id \in DOMAIN windows
         /\ windows[last'.id].type = "overview")
            => /\ terminals' = terminals
               /\ closing' = closing
               /\ terminalToWindow' = terminalToWindow
      ]_vars

\* C31 witness: the overview window was closed while the sidebar listed a
\* terminal, which is still listed.
C31_Witness ==
    /\ last.op = "closeWindow"
    /\ last.id \in DOMAIN last.pre
    /\ last.pre[last.id].type = "overview"
    /\ last.id \notin DOMAIN windows
    /\ terminals # <<>>

\* the characters of the buffer after "/rename"
AfterCommand(str) == SubSeq(str, Len(SlashRename) + 1, Len(str))

\* positions i .. j of rest hold a name: no quote in it, no space at either
\* end; before it one or more spaces with at most one quote among them, not
\* in the first place; after it spaces with at most one quote among them
HoldsName(rest, i, j) ==
    /\ 1 < i /\ i <= j /\ j <= Len(rest)
    /\ \A p \in i .. j : ~IsQuote(rest[p])
    /\ ~IsSpace(rest[i]) /\ ~IsSpace(rest[j])
    /\ IsSpace(rest[1])
    /\ \A p \in 1 .. (i - 1) : IsSpace(rest[p]) \/ IsQuote(rest[p])
    /\ Cardinality({p \in 1 .. (i - 1) : IsQuote(rest[p])}) <= 1
    /\ \A p \in (j + 1) .. Len(rest) : IsSpace(rest[p]) \/ IsQuote(rest[p])
    /\ Cardinality({p \in (j + 1) .. Len(rest) : IsQuote(rest[p])}) <= 1

\* the buffer is "/rename", space, and a non-empty name that may have a quote
\* before and a quote after it
IsRenameCommand(str) ==
    /\ Len(str) > Len(SlashRename)
    /\ SubSeq(str, 1, Len(SlashRename)) = SlashRename
    /\ \E i, j \in 1 .. Len(AfterCommand(str)) : HoldsName(AfterCommand(str), i, j)

\* that name
NameOf(str) ==
    LET rest == AfterCommand(str)
        ij == CHOOSE ij \in (1 .. Len(rest)) \X (1 .. Len(rest)) :
                  HoldsName(rest, ij[1], ij[2])
    IN SubSeq(rest, ij[1], ij[2])

IsEnter(data) == data = <<Code.cr>> \/ data = <<Code.lf>>

\* C32: getRenameAction triggers a rename exactly when the data is Enter, the
\* handled flag is off and the buffer is "/rename" followed by a non-empty,
\* optionally quoted name; it then returns that name trimmed, an empty next
\* buffer and the handled flag on. A whitespace-only name and every other
\* buffer trigger no rename.
C32_RenameExactly ==
    renameCall # NoCall =>
        /\ renameCall.result.shouldRename <=>
               /\ IsEnter(renameCall.data)
               /\ ~renameCall.renameHandled
               /\ IsRenameCommand(renameCall.inputBuffer)
        /\ renameCall.result.shouldRename =>
               /\ renameCall.result.newName = NameOf(renameCall.inputBuffer)
               /\ renameCall.result.nextBuffer = <<>>
               /\ renameCall.result.nextHandled

\* C32 witness: Enter on a buffer with a quoted name and a trailing space
\* renamed to the name without quotes and spaces.
C32_Witness ==
    /\ renameCall # NoCall
    /\ renameCall.result.shouldRename
    /\ \E p \in DOMAIN renameCall.inputBuffer : IsQuote(renameCall.inputBuffer[p])
    /\ IsSpace(renameCall.inputBuffer[Len(renameCall.inputBuffer)])
    /\ renameCall.result.newName = <<Code.a>>

\* C32 witness of the flag: Enter on a rename command with the handled flag
\* on, and no rename.
C32_WitnessHandled ==
    /\ renameCall # NoCall
    /\ IsEnter(renameCall.data)
    /\ renameCall.renameHandled
    /\ IsRenameCommand(renameCall.inputBuffer)
    /\ ~renameCall.result.shouldRename

\* C32 witness of the refusals: Enter on "/rename" followed by spaces only,
\* and no rename.
C32_WitnessBlank ==
    /\ renameCall # NoCall
    /\ IsEnter(renameCall.data)
    /\ ~renameCall.renameHandled
    /\ renameMatches(renameCall.inputBuffer) # {}
    /\ ~renameCall.result.shouldRename

\* a single character that is neither Enter nor backspace: printable from
\* code 32 on, a control character below
IsPrintable(data) == Len(data) = 1 /\ data[1] >= 32 /\ data # <<Code.del>>

IsControl(data) == Len(data) = 1 /\ data[1] < 32 /\ ~IsEnter(data)

\* C33: over any sequence of keystrokes fed through getRenameAction, Enter
\* always empties the buffer; an Enter that follows a rename does not rename
\* again; backspace drops the last buffered character, a printable character
\* is appended, a control character empties the buffer, and each of the
\* three turns the handled flag off.
C33_KeystrokeSequence ==
    [][ /\ IsEnter(renameCall'.data) => inputBuffer' = <<>>
        /\ (/\ renameCall # NoCall
            /\ renameCall.result.shouldRename
            /\ IsEnter(renameCall'.data)) => ~renameCall'.result.shouldRename
        /\ renameCall'.data = <<Code.del>> =>
               /\ ~renameHandled'
               /\ inputBuffer' = SubSeq(inputBuffer, 1, Len(inputBuffer) - 1)
        /\ IsPrintable(renameCall'.data) =>
               /\ ~renameHandled'
               /\ inputBuffer' = inputBuffer \o renameCall'.data
        /\ IsControl(renameCall'.data) =>
               /\ ~renameHandled'
               /\ inputBuffer' = <<>>
      ]_vars

\* C33 witness: an Enter right after a rename (flag on, buffer emptied by it)
\* renamed nothing and turned the flag off.
C33_Witness ==
    /\ renameCall # NoCall
    /\ renameCall.followsRename
    /\ IsEnter(renameCall.data)
    /\ renameCall.renameHandled
    /\ renameCall.inputBuffer = <<>>
    /\ ~renameCall.result.shouldRename
    /\ ~renameHandled
    /\ inputBuffer = <<>>

\* C33 witness of the backspace: it took the last character of a rename
\* command away.
C33_WitnessBackspace ==
    /\ renameCall # NoCall
    /\ renameCall.data = <<Code.del>>
    /\ IsRenameCommand(renameCall.inputBuffer)
    /\ Len(inputBuffer) = Len(renameCall.inputBuffer) - 1

\* window b of wins overlaps the rectangle p and pushWindowAway(b, p) finds
\* no valid candidate in any of the four directions
NoCandidate(wins, b, p) ==
    /\ rectsOverlap(p, windowRect(wins[b]))
    /\ candidateMoves(windowRect(wins[b]), p) = <<>>

\* C34: forceFit never relocates a window. Whenever pushWindowAway finds no
\* valid directional candidate for a window that overlaps the priority
\* rectangle, none of forceFit's four regions is at least 2 by 2, and
\* forceFit, pushWindowAway and the resolution leave the window's rectangle
\* as it was.
C34_ForceFitNeverRelocates ==
    /\ \A id \in DOMAIN windows : \A b \in DOMAIN windows \ {id} :
           LET p == windowRect(windows[id])
           IN NoCandidate(windows, b, p) =>
                  /\ \A i \in DOMAIN RegionsAround(p) : ~Qualifies(RegionsAround(p)[i])
                  /\ forceFit(windows, b, p) = windows
                  /\ pushWindowAway(windows, b, p) = windows
    /\ Resolved =>
           \A b \in DOMAIN windows \ {last.id} :
               NoCandidate(AtCall, b, PriorityRect)
                   => windowRect(windows[b]) = windowRect(AtCall[b])

\* C34 witness: resolveOverlaps met a window with no valid candidate and
\* returned with the window where it was, still overlapping the priority.
C34_Witness ==
    /\ last.op = "resolveOverlaps"
    /\ NoCandidate(AtCall, 2, PriorityRect)
    /\ windowRect(windows[2]) = windowRect(last.pre[2])
    /\ rectsOverlap(PriorityRect, windowRect(windows[2]))

\* p leaves fewer than 2 free cells on each of its four sides
Saturating(p) == p.x < 2 /\ p.x + p.w > 6 /\ p.y < 2 /\ p.y + p.h > 6

\* C35: after resolveOverlaps(p) returns, a non-minimized window still
\* overlaps p's rectangle only if p leaves fewer than 2 free cells on all
\* four sides; for every other p the loop makes at most one pass and no
\* overlap with p is left. (That such a p is reached by resizing a window
\* is the witness.)
C35_ResidualOnlyWhenSaturating ==
    Resolved =>
        /\ ConflictsIn(windows, last.id) # {} => Saturating(PriorityRect)
        /\ ~Saturating(PriorityRect) =>
               /\ resolveOverlapsPasses(AtCall, last.id) <= 1
               /\ ConflictsIn(windows, last.id) = {}
               /\ ConflictsIn(OnePass(AtCall, last.id), last.id) = {}

\* C35 witness: a resize step made its window cover the grid but for one
\* row, and a visible window still overlaps it after the resolution.
C35_Witness ==
    /\ last.op = "handleResize"
    /\ CalledResolve
    /\ Saturating(PriorityRect)
    /\ ~Saturating(windowRect(last.pre[last.id]))
    /\ ConflictsIn(windows, last.id) # {}

\* C35 witness of the other case: a resolution for a priority rectangle with
\* room beside it pushed every conflicting window clear in its one pass.
C35_WitnessOnePass ==
    /\ Resolved
    /\ ~Saturating(PriorityRect)
    /\ resolveOverlapsPasses(AtCall, last.id) = 1
    /\ ConflictsIn(windows, last.id) = {}

\* C36: overlap resolution only ever shrinks.  No step makes a window of the
\* registry wider or taller except a resize step on that very window: every
\* resolution the handlers make (createWindow, handleDrag, handleResize,
\* restoreWindow), and every call of resolveOverlaps, pushWindowAway and
\* forceFit on its own, leaves each other window's width and height at most
\* what they were, so a window shrunk by a push keeps its smaller size until
\* the user resizes it.
Grew(before, after) == after.gridW > before.gridW \/ after.gridH > before.gridH

C36_OnlyShrinks ==
    [][\A id \in DOMAIN windows \cap DOMAIN windows' :
           Grew(windows[id], windows'[id]) =>
               last'.op = "handleResize" /\ last'.id = id]_vars

\* a resolution has shrunk a window that it pushed
C36_Witness ==
    /\ Resolved
    /\ \E b \in DOMAIN AtCall \cap DOMAIN windows :
           /\ b # last.id
           /\ windowRect(AtCall[b]) # windowRect(windows[b])
           /\ \/ windows[b].gridW < AtCall[b].gridW
              \/ windows[b].gridH < AtCall[b].gridH

\* forceFit on its own has shrunk the window it was given
C36_WitnessForceFit ==
    /\ last.op = "forceFit"
    /\ last.id \in DOMAIN last.pre \cap DOMAIN windows
    /\ \/ windows[last.id].gridW < last.pre[last.id].gridW
       \/ windows[last.id].gridH < last.pre[last.id].gridH

\* C37: while a window is minimized its rectangle is frozen.  No step on
\* another window (create, drag, resize, restore, close, or any other
\* operation) changes the x, y, w or h of a window that is minimized.
C37_MinimizedFrozen ==
    [][\A id \in DOMAIN windows \cap DOMAIN windows' :
           (windows[id].minimized /\ id # last'.id) =>
               windowRect(windows'[id]) = windowRect(windows[id])]_vars

\* a resolution around another window's rectangle, which lies over a
\* minimized window
C37_Witness ==
    /\ Resolved
    /\ last.op \in {"createWindow", "handleDrag", "handleResize", "restoreWindow"}
    /\ \E m \in DOMAIN windows \cap DOMAIN last.pre :
           /\ m # last.id
           /\ last.pre[m].minimized /\ windows[m].minimized
           /\ rectsOverlap(PriorityRect, windowRect(windows[m]))

\* C38: in every reachable state no two windows of the registry share a
\* z-order value: each window has a z-order of its own, set by the max+1 it
\* received on creation or on its last focus event.
C38_DistinctZOrder ==
    \A a \in DOMAIN windows, b \in DOMAIN windows :
        /\ windows[a].zIndex # 0
        /\ a # b => zIndexOf(windows[a]) # zIndexOf(windows[b])

\* a focus event on one of at least three windows, which was not in front
C38_Witness ==
    /\ last.op \in {"bringToFront", "startDrag", "restoreWindow"}
    /\ last.id \in DOMAIN last.pre \cap DOMAIN windows
    /\ Cardinality(DOMAIN windows) >= 3
    /\ windows[last.id].zIndex > zIndexOf(last.pre[last.id]) + 1
    /\ \E k \in DOMAIN windows : windows[k].zIndex < zIndexOf(last.pre[last.id])

\* ------------------------------------------- concurrent closeTerminal calls
\* n terminals launched one after another
RECURSIVE launched(_, _)
launched(s, n) == IF n = 0 THEN s ELSE handleLaunch(launched(s, n - 1))

\* the windows of ids closed with their close buttons, lowest id first
RECURSIVE closedAll(_, _)
closedAll(s, ids) ==
    IF ids = {} THEN s
    ELSE LET id == CHOOSE i \in ids : \A j \in ids : i <= j
         IN closedAll(closeWindow(s, id), ids \ {id})

\* The application with up to MaxWindows - 1 terminals launched and some of
\* its windows closed by the user, before any terminal is closed.
InitClose ==
    \E n \in 1 .. (MaxWindows - 1), ids \in SUBSET (1 .. MaxWindows) :
        StartsAs(closedAll(launched(openOverviewWindow(constructed), n), ids))

\* calls of closeTerminal and the answers of terminalAPI.close, in any order
NextClose ==
    \/ CloseTerminal
    \/ CloseTerminalResume

SpecClose == InitClose /\ [][NextClose]_vars

\* C39: for every interleaving of concurrent closeTerminal calls, once all
\* calls have completed no window of the registry names a terminal that was
\* removed from the terminal manager, and terminalToWindow has no entry for
\* a closed terminal.
C39_ClosedTerminalsLeaveNothing ==
    closing = <<>> =>
        /\ \A id \in DOMAIN windows :
               windows[id].type = "terminal" => windows[id].terminalId \in SidebarIds
        /\ DOMAIN terminalToWindow \subseteq SidebarIds

\* C40: under any sequence of application operations (open or toggle the
\* overview, open or select a terminal, close a window, close a terminal) the
\* registry holds at most one overview window and at most one window per
\* terminal id, and every terminalToWindow entry names a window that is in
\* the registry and carries that terminal id.
C40_RegistryConsistent ==
    /\ \A a \in DOMAIN windows, b \in DOMAIN windows :
           /\ (windows[a].type = "overview" /\ windows[b].type = "overview") => a = b
           /\ ( /\ windows[a].type = "terminal" /\ windows[b].type = "terminal"
                /\ windows[a].terminalId = windows[b].terminalId ) => a = b
    /\ \A terminalId \in DOMAIN terminalToWindow :
           /\ terminalToWindow[terminalId] \in DOMAIN windows
           /\ windows[terminalToWindow[terminalId]].terminalId = terminalId

\* a terminal whose window was closed has been given a new window by
\* selectTerminal, next to the overview window
C40_Witness ==
    /\ last.op \in {"selectTerminal", "closeTerminalResume"}
    /\ hasOverviewWindow
    /\ \E terminalId \in DOMAIN terminalToWindow :
           /\ terminalToWindow[terminalId] \notin DOMAIN last.pre
           /\ terminalToWindow[terminalId] > terminalId + 1

====
